---- MODULE Spec2Model ----
(***************************************************************************)
(* Hyperspeedcube: the 4D Rubik's cube (src/src/puzzle/rubiks_4d.rs) and   *)
(* the animation / undo-history controller (src/src/controller.rs).        *)
(*                                                                         *)
(* A face, a twist axis and a twist direction are the u8 discriminants of  *)
(* the source's enums.  A PieceState is the 4-tuple of faces indexed by    *)
(* axis + 1.  A puzzle state is the record [layer_count, piece_states],    *)
(* piece_states being a function from the piece index.                     *)
(***************************************************************************)
EXTENDS Integers, Sequences, FiniteSets, TLC

----------------------------------------------------------------------------
(* Enums of sign.rs and rubiks_4d.rs *)

Sign == [Neg |-> -1, Zero |-> 0, Pos |-> 1]

Axis == [X |-> 0, Y |-> 1, Z |-> 2, W |-> 3]

Axis_iter == <<Axis.X, Axis.Y, Axis.Z, Axis.W>>

FaceEnum == [R |-> 0, L |-> 1, U |-> 2, D |-> 3, F |-> 4, B |-> 5, O |-> 6, I |-> 7]

FaceEnum_iter == <<FaceEnum.R, FaceEnum.L, FaceEnum.U, FaceEnum.D,
                   FaceEnum.F, FaceEnum.B, FaceEnum.O, FaceEnum.I>>

TwistDirectionEnum ==
    [R |-> 0, L |-> 1, U |-> 2, D |-> 3, F |-> 4, B |-> 5,
     R2 |-> 6, L2 |-> 7, U2 |-> 8, D2 |-> 9, F2 |-> 10, B2 |-> 11,
     UF |-> 12, DB |-> 13, UR |-> 14, DL |-> 15, FR |-> 16, BL |-> 17,
     DF |-> 18, UB |-> 19, UL |-> 20, DR |-> 21, BR |-> 22, FL |-> 23,
     UFR |-> 24, DBL |-> 25, UFL |-> 26, DBR |-> 27,
     DFR |-> 28, UBL |-> 29, UBR |-> 30, DFL |-> 31]

TwistDirectionEnum_COUNT == 32

MIN_LAYER_COUNT == 1

MAX_LAYER_COUNT == 9

DEFAULT_LAYER_COUNT == 3

----------------------------------------------------------------------------
(* u8 helpers *)

RECURSIVE BitXor(_, _)
\* the ^ operator on unsigned integers
BitXor(a, b) ==
    IF a = 0 THEN b
    ELSE IF b = 0 THEN a
    ELSE (((a % 2) + (b % 2)) % 2) + 2 * BitXor(a \div 2, b \div 2)

\* u8::abs_diff
abs_diff(a, b) == IF a >= b THEN a - b ELSE b - a

\* an Option is the empty sequence (None) or a sequence of one value (Some)
None == <<>>

Some(value) == <<value>>

\* num_enum FromPrimitive for FaceEnum: an unknown discriminant gives the default R
FaceEnum_from(i) == IF i \in 0..7 THEN i ELSE FaceEnum.R

\* num_enum FromPrimitive for TwistDirectionEnum: unknown gives the default R
TwistDirectionEnum_from(i) ==
    IF i \in 0..(TwistDirectionEnum_COUNT - 1) THEN i ELSE TwistDirectionEnum.R

----------------------------------------------------------------------------
(* FaceEnum methods *)

\* the match arms of axis(), sign() and opposite(), in the order of the enum:
\* R L U D F B O I
FaceEnum_axes == <<Axis.X, Axis.X, Axis.Y, Axis.Y, Axis.Z, Axis.Z, Axis.W, Axis.W>>

FaceEnum_signs == <<Sign.Pos, Sign.Neg, Sign.Pos, Sign.Neg,
                    Sign.Pos, Sign.Neg, Sign.Pos, Sign.Neg>>

FaceEnum_opposites == <<FaceEnum.L, FaceEnum.R, FaceEnum.D, FaceEnum.U,
                        FaceEnum.B, FaceEnum.F, FaceEnum.I, FaceEnum.O>>

FaceEnum_axis(face) == FaceEnum_axes[face + 1]

FaceEnum_sign(face) == FaceEnum_signs[face + 1]

FaceEnum_opposite(face) == FaceEnum_opposites[face + 1]

\* a slip of basis_faces: the axis of the face is not replaced by W
basis_faces_keeps_axis(face) == <<FaceEnum.R, FaceEnum.U, FaceEnum.F>>

\* the three faces spanning the 3D cell of `face`
basis_faces(face) ==
    LET w == IF FaceEnum_sign(face) = Sign.Pos THEN FaceEnum.O ELSE FaceEnum.I
    IN  << IF FaceEnum_axis(face) = Axis.X THEN w ELSE FaceEnum.R,
           IF FaceEnum_axis(face) = Axis.Y THEN w ELSE FaceEnum.U,
           IF FaceEnum_axis(face) = Axis.Z THEN w ELSE FaceEnum.F >>

----------------------------------------------------------------------------
(* TwistDirectionEnum methods *)

\* the symbol strings, each as its sequence of characters, in the order of
\* the enum: R L U D F B, R2 L2 U2 D2 F2 B2, UF DB UR DL FR BL DF UB UL DR BR
\* FL, UFR DBL UFL DBR DFR UBL UBR DFL
symbols ==
    << <<"x">>, <<"x", "'">>, <<"y">>, <<"y", "'">>, <<"z">>, <<"z", "'">>,
       <<"x", "2">>, <<"x", "2", "'">>, <<"y", "2">>, <<"y", "2", "'">>,
       <<"z", "2">>, <<"z", "2", "'">>,
       <<"x", "y", "2">>, <<"x", "y", "2", "'">>,
       <<"z", "x", "2">>, <<"z", "x", "2", "'">>,
       <<"y", "z", "2">>, <<"y", "z", "2", "'">>,
       <<"x", "z", "2">>, <<"x", "z", "2", "'">>,
       <<"z", "y", "2">>, <<"z", "y", "2", "'">>,
       <<"y", "x", "2">>, <<"y", "x", "2", "'">>,
       <<"x", "y">>, <<"y", "'", "x", "'">>,
       <<"z", "y">>, <<"x", "y", "'">>,
       <<"x", "z">>, <<"y", "z", "'">>,
       <<"y", "x">>, <<"z", "x", "'">> >>

\* TwistDirectionEnum::symbol
symbol(direction) == symbols[direction + 1]

\* a slip of reverse_twist_direction: the next direction instead of the paired one
reverse_twist_direction_next(direction) == (direction + 1) % TwistDirectionEnum_COUNT

\* Rubiks4DDescription::reverse_twist_direction: direction.0 ^= 1
reverse_twist_direction(direction) == BitXor(direction, 1)

----------------------------------------------------------------------------
(* PieceState: the facing directions of the X+, Y+, Z+ and W+ stickers *)

PieceState_default == <<FaceEnum.R, FaceEnum.U, FaceEnum.F, FaceEnum.O>>

\* a slip of mirror: no label is flipped
mirror_face_keeps_sign(face, axis) == face

\* mirror on one slot: the label flips its sign when it is on `axis`
mirror_face(face, axis) ==
    IF FaceEnum_axis(face) = axis THEN FaceEnum_opposite(face) ELSE face

\* flip the sign of every slot whose label is on `axis`
mirror(self, axis) ==
    <<mirror_face(self[1], axis), mirror_face(self[2], axis),
      mirror_face(self[3], axis), mirror_face(self[4], axis)>>

\* a slip of the first loop of rotate: only the labels on `from` are XORed
swap_axes_face_from_only(face, from, to) ==
    LET diff == BitXor(from, to) * 2
    IN  IF FaceEnum_axis(face) = from
        THEN FaceEnum_from(BitXor(face, diff))
        ELSE face

\* the first loop of rotate on one slot: a label on `from` or `to` is XORed
\* with diff = (from ^ to) << 1, which swaps the two axes and keeps the sign
swap_axes_face(face, from, to) ==
    LET diff == BitXor(from, to) * 2
    IN  IF FaceEnum_axis(face) = from \/ FaceEnum_axis(face) = to
        THEN FaceEnum_from(BitXor(face, diff))
        ELSE face

\* rotate on one slot, tabulated for every from, to and label (each index
\* is the discriminant plus one)
rotate_faces ==
    [from \in 1..4 |-> [to \in 1..4 |-> [face \in 1..8 |->
        mirror_face(swap_axes_face(face - 1, from - 1, to - 1), from - 1)]]]

\* swap the axes `from` and `to` in every label, then mirror `from`
rotate(self, from, to) ==
    LET slot == rotate_faces[from + 1][to + 1]
    IN  <<slot[self[1] + 1], slot[self[2] + 1], slot[self[3] + 1], slot[self[4] + 1]>>

rotate_by_faces(self, from, to) ==
    IF FaceEnum_sign(from) = FaceEnum_sign(to)
    THEN rotate(self, FaceEnum_axis(from), FaceEnum_axis(to))
    ELSE rotate(self, FaceEnum_axis(to), FaceEnum_axis(from))

RECURSIVE twist_loop_single(_, _, _, _)
\* a slip of the loop of PieceState::twist: a doubled rotation is applied
\* once
twist_loop_single(self, basis, chars, i) ==
    IF i > Len(chars) THEN self
    ELSE IF chars[i] \notin {"x", "y", "z"} THEN twist_loop_single(self, basis, chars, i + 1)
    ELSE
      LET ab == CASE chars[i] = "x" -> <<basis[3], basis[2]>>
                  [] chars[i] = "y" -> <<basis[1], basis[3]>>
                  [] chars[i] = "z" -> <<basis[2], basis[1]>>
          double == i + 1 <= Len(chars) /\ chars[i + 1] = "2"
          j == IF double THEN i + 2 ELSE i + 1
          inverse == j <= Len(chars) /\ chars[j] = "'"
          k == IF inverse THEN j + 1 ELSE j
          a == IF inverse THEN ab[2] ELSE ab[1]
          b == IF inverse THEN ab[1] ELSE ab[2]
          once == rotate_by_faces(self, a, b)
          twice == once
      IN  twist_loop_single(twice, basis, chars, k)

RECURSIVE twist_loop(_, _, _, _)
\* the loop of PieceState::twist over the characters of the symbol, `i` being
\* the position of the next character
twist_loop(self, basis, chars, i) ==
    IF i > Len(chars) THEN self
    ELSE IF chars[i] \notin {"x", "y", "z"} THEN twist_loop(self, basis, chars, i + 1)
    ELSE
      LET ab == CASE chars[i] = "x" -> <<basis[3], basis[2]>>
                  [] chars[i] = "y" -> <<basis[1], basis[3]>>
                  [] chars[i] = "z" -> <<basis[2], basis[1]>>
          double == i + 1 <= Len(chars) /\ chars[i + 1] = "2"
          j == IF double THEN i + 2 ELSE i + 1
          inverse == j <= Len(chars) /\ chars[j] = "'"
          k == IF inverse THEN j + 1 ELSE j
          a == IF inverse THEN ab[2] ELSE ab[1]
          b == IF inverse THEN ab[1] ELSE ab[2]
          once == rotate_by_faces(self, a, b)
          twice == IF double THEN rotate_by_faces(once, a, b) ELSE once
      IN  twist_loop(twice, basis, chars, k)

\* PieceState::twist
PieceState_twist(self, face, direction) ==
    twist_loop(self, basis_faces(face), symbol(direction), 1)

\* TwistDirectionEnum::period
period(direction) ==
    LET T == TwistDirectionEnum
    IN  CASE direction \in {T.R, T.L, T.U, T.D, T.F, T.B} -> 4
          [] direction \in {T.R2, T.L2, T.U2, T.D2, T.F2, T.B2} -> 2
          [] direction \in {T.UF, T.DB, T.UR, T.DL, T.FR, T.BL,
                            T.DF, T.UB, T.UL, T.DR, T.BR, T.FL} -> 2
          [] direction \in {T.UFR, T.DBL, T.UFL, T.DBR,
                            T.DFR, T.UBL, T.UBR, T.DFL} -> 3

\* TwistDirectionEnum::vector3: the axis of the rotation within the face
vector3(direction) ==
    LET T == TwistDirectionEnum
        x == IF direction \in {T.R, T.R2, T.UR, T.FR, T.DR, T.BR,
                               T.UFR, T.DBR, T.DFR, T.UBR} THEN 1
             ELSE IF direction \in {T.L, T.L2, T.UL, T.FL, T.DL, T.BL,
                                    T.UFL, T.DBL, T.DFL, T.UBL} THEN -1
             ELSE 0
        y == IF direction \in {T.U, T.U2, T.UF, T.UR, T.UB, T.UL,
                               T.UFR, T.UFL, T.UBL, T.UBR} THEN 1
             ELSE IF direction \in {T.D, T.D2, T.DF, T.DR, T.DB, T.DL,
                                    T.DFR, T.DFL, T.DBL, T.DBR} THEN -1
             ELSE 0
        z == IF direction \in {T.F, T.F2, T.UF, T.FR, T.DF, T.FL,
                               T.UFR, T.UFL, T.DFR, T.DFL} THEN 1
             ELSE IF direction \in {T.B, T.B2, T.UB, T.BR, T.DB, T.BL,
                                    T.UBR, T.UBL, T.DBR, T.DBL} THEN -1
             ELSE 0
    IN  <<x, y, z>>

\* the arms of the match of from_signs_within_face, in order
from_signs_arms ==
    LET T == TwistDirectionEnum
    IN  << <<(<<1, 1, 1>>), T.UFR>>, <<(<<-1, 1, 1>>), T.UFL>>,
           <<(<<1, -1, 1>>), T.DFR>>, <<(<<-1, -1, 1>>), T.DFL>>,
           <<(<<1, 1, -1>>), T.UBR>>, <<(<<-1, 1, -1>>), T.UBL>>,
           <<(<<1, -1, -1>>), T.DBR>>, <<(<<-1, -1, -1>>), T.DBL>>,
           <<(<<1, 1, 0>>), T.UR>>, <<(<<-1, 1, 0>>), T.UL>>,
           <<(<<1, -1, 0>>), T.DR>>, <<(<<-1, -1, 0>>), T.DL>>,
           <<(<<1, 0, 1>>), T.FR>>, <<(<<-1, 0, 1>>), T.FL>>,
           <<(<<1, 0, -1>>), T.BR>>, <<(<<-1, 0, -1>>), T.BL>>,
           <<(<<0, 1, 1>>), T.UF>>, <<(<<0, -1, 1>>), T.DF>>,
           <<(<<0, 1, -1>>), T.UB>>, <<(<<0, -1, -1>>), T.DB>>,
           <<(<<1, 0, 0>>), T.R>>, <<(<<-1, 0, 0>>), T.L>>,
           <<(<<0, 1, 0>>), T.U>>, <<(<<0, -1, 0>>), T.D>>,
           <<(<<0, 0, 1>>), T.F>>, <<(<<0, 0, -1>>), T.B>> >>

\* a slip of from_signs_within_face: the sign of the third coordinate is lost
from_signs_within_face_unsigned_z(signs) ==
    LET arms == from_signs_arms
        matching == {i \in DOMAIN arms :
                        arms[i][1] = <<signs[1], signs[2], signs[3] * signs[3]>>}
    IN  IF matching = {} THEN None
        ELSE Some(arms[CHOOSE i \in matching : \A j \in matching : i <= j][2])

\* TwistDirectionEnum::from_signs_within_face: the first arm that matches
\* [v.x, v.y, v.z], None for the wildcard arm
from_signs_within_face(signs) ==
    LET arms == from_signs_arms
        matching == {i \in DOMAIN arms : arms[i][1] = <<signs[1], signs[2], signs[3]>>}
    IN  IF matching = {} THEN None
        ELSE Some(arms[CHOOSE i \in matching : \A j \in matching : i <= j][2])

----------------------------------------------------------------------------
(* Rubiks4DDescription and its cache *)

\* the largest layer count the model builds a description for
MaxLayerCount == 3

\* a slip of x_range: full_range for every row of the lattice
x_range_always_full(layer_count, y, z, w) ==
    [i \in 1..layer_count |-> i - 1]

\* a slip of x_range: ends starts one step inside the lattice
x_range_inner_ends(layer_count, y, z, w) ==
    IF \/ w = 0 \/ w = layer_count - 1
       \/ z = 0 \/ z = layer_count - 1
       \/ y = 0 \/ y = layer_count - 1
    THEN [i \in 1..layer_count |-> i - 1]
    ELSE <<1, layer_count - 1>>

\* the x values the innermost loop visits for the given y, z, w: full_range
\* on the boundary of the lattice, ends inside it
x_range(layer_count, y, z, w) ==
    IF \/ w = 0 \/ w = layer_count - 1
       \/ z = 0 \/ z = layer_count - 1
       \/ y = 0 \/ y = layer_count - 1
    THEN [i \in 1..layer_count |-> i - 1]
    ELSE <<0, layer_count - 1>>

\* a slip of push_sticker_if: the sticker is numbered within its piece
push_sticker_if_numbered_in_piece(building, piece, sticker, condition, face) ==
    IF condition
    THEN [piece_stickers |-> Append(building.piece_stickers, Len(building.stickers)),
          stickers |-> Append(building.stickers, [piece |-> piece, color |-> face])]
    ELSE building

\* the closure push_sticker_if for the piece being built: `building` holds
\* piece_stickers and the stickers this piece has added to `stickers`, which
\* held `sticker` entries when the piece was started
push_sticker_if(building, piece, sticker, condition, face) ==
    IF condition
    THEN [piece_stickers |-> Append(building.piece_stickers,
                                    sticker + Len(building.stickers)),
          stickers |-> Append(building.stickers, [piece |-> piece, color |-> face])]
    ELSE building

\* the eight push_sticker_if calls of one piece, in the order of the code
push_stickers(piece, sticker, layer_count, x, y, z, w) ==
    push_sticker_if(
     push_sticker_if(
      push_sticker_if(
       push_sticker_if(
        push_sticker_if(
         push_sticker_if(
          push_sticker_if(
           push_sticker_if([piece_stickers |-> <<>>, stickers |-> <<>>],
                           piece, sticker, x = layer_count - 1, FaceEnum.R),
           piece, sticker, x = 0, FaceEnum.L),
          piece, sticker, y = layer_count - 1, FaceEnum.U),
         piece, sticker, y = 0, FaceEnum.D),
        piece, sticker, z = layer_count - 1, FaceEnum.F),
       piece, sticker, z = 0, FaceEnum.B),
      piece, sticker, w = layer_count - 1, FaceEnum.O),
     piece, sticker, w = 0, FaceEnum.I)

\* the body of the innermost loop: the piece at [x, y, z, w] with its
\* stickers, `piece` and `sticker` being pieces.len() and stickers.len()
push_piece(layer_count, x, y, z, w, piece, sticker) ==
    LET pushed(building) ==
            [pieces |-> << [stickers |-> building.piece_stickers] >>,
             stickers |-> building.stickers,
             piece_locations |-> << <<x, y, z, w>> >>]
    IN  pushed(push_stickers(piece, sticker, layer_count, x, y, z, w))

\* the vectors pushed by some iterations followed by those pushed by the
\* iterations after them
pushed_then(first, rest) ==
    [pieces |-> first.pieces \o rest.pieces,
     stickers |-> first.stickers \o rest.stickers,
     piece_locations |-> first.piece_locations \o rest.piece_locations]

\* what no iteration pushes
nothing_pushed == [pieces |-> <<>>, stickers |-> <<>>, piece_locations |-> <<>>]

\* Each loop runs its iterations lo..hi (hi excluded) as the iterations
\* lo..mid followed by mid..hi, which pushes the same entries in the same
\* order; `piece` and `sticker` are pieces.len() and stickers.len() when the
\* iteration lo starts.
RECURSIVE for_x(_, _, _, _, _, _, _, _, _)
\* for &x in x_range: the iterations over xs[lo + 1] .. xs[hi]
for_x(layer_count, xs, lo, hi, y, z, w, piece, sticker) ==
    LET then(first) ==
            pushed_then(first, for_x(layer_count, xs, (lo + hi) \div 2, hi, y, z, w,
                                     piece + Len(first.pieces),
                                     sticker + Len(first.stickers)))
    IN  CASE hi = lo -> nothing_pushed
          [] hi = lo + 1 -> push_piece(layer_count, xs[hi], y, z, w, piece, sticker)
          [] OTHER -> then(for_x(layer_count, xs, lo, (lo + hi) \div 2, y, z, w,
                                 piece, sticker))

RECURSIVE for_y(_, _, _, _, _, _, _)
\* for y in 0..layer_count: the iterations lo..hi
for_y(layer_count, lo, hi, z, w, piece, sticker) ==
    LET then(first) ==
            pushed_then(first, for_y(layer_count, (lo + hi) \div 2, hi, z, w,
                                     piece + Len(first.pieces),
                                     sticker + Len(first.stickers)))
    IN  CASE hi = lo -> nothing_pushed
          [] hi = lo + 1 -> for_x(layer_count, x_range(layer_count, lo, z, w),
                                  0, Len(x_range(layer_count, lo, z, w)),
                                  lo, z, w, piece, sticker)
          [] OTHER -> then(for_y(layer_count, lo, (lo + hi) \div 2, z, w,
                                 piece, sticker))

RECURSIVE for_z(_, _, _, _, _, _)
\* for z in 0..layer_count: the iterations lo..hi
for_z(layer_count, lo, hi, w, piece, sticker) ==
    LET then(first) ==
            pushed_then(first, for_z(layer_count, (lo + hi) \div 2, hi, w,
                                     piece + Len(first.pieces),
                                     sticker + Len(first.stickers)))
    IN  CASE hi = lo -> nothing_pushed
          [] hi = lo + 1 -> for_y(layer_count, 0, layer_count, lo, w, piece, sticker)
          [] OTHER -> then(for_z(layer_count, lo, (lo + hi) \div 2, w, piece, sticker))

RECURSIVE for_w(_, _, _, _, _)
\* for w in 0..layer_count: the iterations lo..hi
for_w(layer_count, lo, hi, piece, sticker) ==
    LET then(first) ==
            pushed_then(first, for_w(layer_count, (lo + hi) \div 2, hi,
                                     piece + Len(first.pieces),
                                     sticker + Len(first.stickers)))
    IN  CASE hi = lo -> nothing_pushed
          [] hi = lo + 1 -> for_z(layer_count, 0, layer_count, lo, piece, sticker)
          [] OTHER -> then(for_w(layer_count, lo, (lo + hi) \div 2, piece, sticker))

\* pieces, stickers and piece_locations as the four nested loops build them
generate_pieces(layer_count) == for_w(layer_count, 0, layer_count, 0, 0)

\* piece_locations in the order the four nested loops push them
generate_piece_locations(layer_count) == generate_pieces(layer_count).piece_locations

\* the value the closure of or_insert_with builds for one layer count
Rubiks4DDescription(layer_count) ==
    LET leaked(built) ==
            [layer_count |-> layer_count,
             pieces |-> built.pieces,
             stickers |-> built.stickers,
             piece_locations |-> built.piece_locations]
    IN  leaked(generate_pieces(layer_count))

RECURSIVE descriptions_up_to(_)
\* the descriptions of the layer counts MIN_LAYER_COUNT..layer_count, in order
descriptions_up_to(layer_count) ==
    IF layer_count < MIN_LAYER_COUNT THEN <<>>
    ELSE Append(descriptions_up_to(layer_count - 1), Rubiks4DDescription(layer_count))

\* the cache of descriptions, one per layer count, never cleared
CACHE == descriptions_up_to(MaxLayerCount)

puzzle_description(layer_count) == CACHE[layer_count]

\* CACHE.lock().unwrap().entry(layer_count).or_insert_with(..) on a cache
\* holding `map`: the map afterwards
entry_or_insert_with(map, layer_count) ==
    IF layer_count \in DOMAIN map
    THEN map
    ELSE map @@ (layer_count :> Rubiks4DDescription(layer_count))

\* a slip of or_insert_with: the description is built and inserted whether
\* or not the key is present
or_insert_with_rebuilds(map, heap, layer_count) ==
    [map |-> [key \in DOMAIN map \cup {layer_count} |->
                 IF key = layer_count THEN Len(heap) + 1 ELSE map[key]],
     leaked |-> Append(heap, Rubiks4DDescription(layer_count)),
     reference |-> Len(heap) + 1]

\* entry(layer_count).or_insert_with(|| Box::leak(Box::new(..))) on a map of
\* references into the leaked descriptions `heap`: the map and the heap
\* afterwards, and the reference the call evaluates to
or_insert_with(map, heap, layer_count) ==
    IF layer_count \in DOMAIN map
    THEN [map |-> map, leaked |-> heap, reference |-> map[layer_count]]
    ELSE [map |-> map @@ (layer_count :> Len(heap) + 1),
          leaked |-> Append(heap, Rubiks4DDescription(layer_count)),
          reference |-> Len(heap) + 1]

\* a slip of puzzle_description: the lock is taken before the assertions
next_pc_locks_first(pc) ==
    CASE pc = "idle" -> "lock"
      [] pc = "lock" -> "assert"
      [] pc = "assert" -> "entry"
      [] pc = "entry" -> "unlock"
      [] pc = "unlock" -> "idle"

\* the order of the steps of puzzle_description: the two assertions, then
\* CACHE.lock().unwrap(), then entry().or_insert_with(), then the guard is
\* dropped and the reference returned
next_pc(pc) ==
    CASE pc = "idle" -> "assert"
      [] pc = "assert" -> "lock"
      [] pc = "lock" -> "entry"
      [] pc = "entry" -> "unlock"
      [] pc = "unlock" -> "idle"

\* desc.pieces().len()
pieces_len(layer_count) == Len(puzzle_description(layer_count).pieces)

----------------------------------------------------------------------------
(* Twist and LayerMask *)

\* PuzzleTypeEnum::Rubiks4D { layer_count }
Rubiks4D_ty(layer_count) == [family |-> "Rubiks4D", layer_count |-> layer_count]

\* LayerMask indexing: bit `layer` of the mask
LayerMask_index(layers, layer) == (layers \div (2 ^ layer)) % 2 = 1

\* LayerMask::default(): the outermost layer only
LayerMask_default == 1

\* all_layers(): the low layer_count bits
all_layers(layer_count) == (2 ^ layer_count) - 1

\* Twist::rev: the same axis and layers, the direction reversed
Twist_rev(twist) ==
    [twist EXCEPT !.direction = reverse_twist_direction(twist.direction)]

----------------------------------------------------------------------------
(* Rubiks4D: desc (by its layer count) and piece_states *)

Rubiks4D_new(layer_count) ==
    [layer_count |-> layer_count,
     piece_states |-> [p \in 0..(pieces_len(layer_count) - 1) |-> PieceState_default]]

RECURSIVE piece_location_loop_from_count(_, _, _, _, _)
\* a slip of the loop of piece_location: a negative label counts the
\* coordinate from layer_count instead of layer_count - 1
piece_location_loop_from_count(piece_state, initial_location, layer_count, ret, i) ==
    IF i > Len(Axis_iter) THEN ret
    ELSE piece_location_loop_from_count(
            piece_state, initial_location, layer_count,
            [ret EXCEPT ![FaceEnum_axis(piece_state[Axis_iter[i] + 1]) + 1] =
                IF FaceEnum_sign(piece_state[Axis_iter[i] + 1]) = Sign.Neg
                THEN layer_count - initial_location[i]
                ELSE initial_location[i]],
            i + 1)

RECURSIVE piece_location_loop(_, _, _, _, _)
\* the loop of piece_location over Axis::iter().enumerate(), from the i-th
\* axis on: ret[piece_state[axis].axis()] is the initial coordinate i,
\* counted from the other end when the label is negative
piece_location_loop(piece_state, initial_location, layer_count, ret, i) ==
    IF i > Len(Axis_iter) THEN ret
    ELSE piece_location_loop(
            piece_state, initial_location, layer_count,
            [ret EXCEPT ![FaceEnum_axis(piece_state[Axis_iter[i] + 1]) + 1] =
                IF FaceEnum_sign(piece_state[Axis_iter[i] + 1]) = Sign.Neg
                THEN layer_count - 1 - initial_location[i]
                ELSE initial_location[i]],
            i + 1)

\* the current location of a piece, from its initial location and its state
piece_location(self, piece) ==
    piece_location_loop(self.piece_states[piece],
                        puzzle_description(self.layer_count).piece_locations[piece + 1],
                        self.layer_count, <<0, 0, 0, 0>>, 1)

\* a slip of layer_from_twist_axis: the piece's initial location is used
layer_from_twist_axis_initial(self, twist_axis, piece) ==
    LET face == FaceEnum_from(twist_axis)
        face_coord == IF FaceEnum_sign(face) = Sign.Pos THEN self.layer_count - 1 ELSE 0
        piece_coord == puzzle_description(self.layer_count)
                           .piece_locations[piece + 1][FaceEnum_axis(face) + 1]
    IN  abs_diff(face_coord, piece_coord)

layer_from_twist_axis(self, twist_axis, piece) ==
    LET face == FaceEnum_from(twist_axis)
        face_coord == IF FaceEnum_sign(face) = Sign.Pos THEN self.layer_count - 1 ELSE 0
        piece_coord == piece_location(self, piece)[FaceEnum_axis(face) + 1]
    IN  abs_diff(face_coord, piece_coord)

\* a piece is affected iff its layer along the twist axis is in the layer mask
is_piece_affected_by_twist(self, twist, piece) ==
    LayerMask_index(twist.layers, layer_from_twist_axis(self, twist.axis, piece))

pieces_affected_by_twist(self, twist) ==
    {piece \in DOMAIN self.piece_states : is_piece_affected_by_twist(self, twist, piece)}

\* a slip of Rubiks4D::twist: every piece is twisted, whatever its layer
Rubiks4D_twist_every_piece(self, twist) ==
    [self EXCEPT !.piece_states =
        [piece \in DOMAIN self.piece_states |->
            PieceState_twist(self.piece_states[piece],
                             FaceEnum_from(twist.axis),
                             TwistDirectionEnum_from(twist.direction))]]

\* PuzzleState::twist for Rubiks4D; it always returns Ok(())
Rubiks4D_twist(self, twist) ==
    LET affected == pieces_affected_by_twist(self, twist)
    IN  [self EXCEPT !.piece_states =
            [piece \in DOMAIN self.piece_states |->
                IF piece \in affected
                THEN PieceState_twist(self.piece_states[piece],
                                      FaceEnum_from(twist.axis),
                                      TwistDirectionEnum_from(twist.direction))
                ELSE self.piece_states[piece]]]

----------------------------------------------------------------------------
(* Puzzle: the wrapper over the puzzle families; only Rubiks4D is modelled *)

Puzzle_new(ty) == Rubiks4D_new(ty.layer_count)

Puzzle_ty(self) == Rubiks4D_ty(self.layer_count)

\* a slip of make_recenter_twist: the near and far faces get a twist too
make_recenter_twist_any_face(layer_count, axis) ==
    LET made(twist_axis, direction) ==
            [ok |-> TRUE,
             twist |-> [axis |-> twist_axis, direction |-> direction,
                        layers |-> all_layers(layer_count)]]
        Dir == TwistDirectionEnum
    IN  CASE FaceEnum_from(axis) = FaceEnum.R -> made(FaceEnum.U, Dir.F)
          [] FaceEnum_from(axis) = FaceEnum.L -> made(FaceEnum.U, Dir.B)
          [] FaceEnum_from(axis) = FaceEnum.U -> made(FaceEnum.R, Dir.B)
          [] FaceEnum_from(axis) = FaceEnum.D -> made(FaceEnum.R, Dir.F)
          [] FaceEnum_from(axis) = FaceEnum.F -> made(FaceEnum.R, Dir.U)
          [] FaceEnum_from(axis) = FaceEnum.B -> made(FaceEnum.R, Dir.D)
          [] FaceEnum_from(axis) = FaceEnum.O -> made(FaceEnum.R, Dir.U)
          [] FaceEnum_from(axis) = FaceEnum.I -> made(FaceEnum.R, Dir.D)

\* a slip of make_recenter_twist: L is turned the way R is
make_recenter_twist_l_as_r(layer_count, axis) ==
    LET made(twist_axis, direction) ==
            [ok |-> TRUE,
             twist |-> [axis |-> twist_axis, direction |-> direction,
                        layers |-> all_layers(layer_count)]]
        Dir == TwistDirectionEnum
    IN  CASE FaceEnum_from(axis) = FaceEnum.R -> made(FaceEnum.U, Dir.F)
          [] FaceEnum_from(axis) = FaceEnum.L -> made(FaceEnum.U, Dir.F)
          [] FaceEnum_from(axis) = FaceEnum.U -> made(FaceEnum.R, Dir.B)
          [] FaceEnum_from(axis) = FaceEnum.D -> made(FaceEnum.R, Dir.F)
          [] FaceEnum_from(axis) = FaceEnum.F -> made(FaceEnum.R, Dir.U)
          [] FaceEnum_from(axis) = FaceEnum.B -> made(FaceEnum.R, Dir.D)
          [] FaceEnum_from(axis) = FaceEnum.O ->
                [ok |-> FALSE, err |-> "cannot recenter near face"]
          [] FaceEnum_from(axis) = FaceEnum.I ->
                [ok |-> FALSE, err |-> "cannot recenter far face"]

\* Rubiks4D::make_recenter_twist: Ok(Twist { axis, direction, layers:
\* all_layers() }) or Err(message)
make_recenter_twist(layer_count, axis) ==
    LET made(twist_axis, direction) ==
            [ok |-> TRUE,
             twist |-> [axis |-> twist_axis, direction |-> direction,
                        layers |-> all_layers(layer_count)]]
        Dir == TwistDirectionEnum
    IN  CASE FaceEnum_from(axis) = FaceEnum.R -> made(FaceEnum.U, Dir.F)
          [] FaceEnum_from(axis) = FaceEnum.L -> made(FaceEnum.U, Dir.B)
          [] FaceEnum_from(axis) = FaceEnum.U -> made(FaceEnum.R, Dir.B)
          [] FaceEnum_from(axis) = FaceEnum.D -> made(FaceEnum.R, Dir.F)
          [] FaceEnum_from(axis) = FaceEnum.F -> made(FaceEnum.R, Dir.U)
          [] FaceEnum_from(axis) = FaceEnum.B -> made(FaceEnum.R, Dir.D)
          [] FaceEnum_from(axis) = FaceEnum.O ->
                [ok |-> FALSE, err |-> "cannot recenter near face"]
          [] FaceEnum_from(axis) = FaceEnum.I ->
                [ok |-> FALSE, err |-> "cannot recenter far face"]

\* Twist::from_face_recenter: the recentering twist of the face's puzzle
\* type, or its error
Twist_from_face_recenter(ty, face) ==
    LET made == make_recenter_twist(ty.layer_count, face)
    IN  IF made.ok
        THEN [ok |-> TRUE,
              twist |-> [ty |-> ty, axis |-> made.twist.axis,
                         direction |-> made.twist.direction,
                         layers |-> made.twist.layers]]
        ELSE [ok |-> FALSE]

\* Rubiks4D::piece_location_signs: -1 for coordinate 0, else 1 for
\* coordinate layer_count - 1, else 0
piece_location_signs(self, piece) ==
    LET get_sign(i) == IF i = 0 THEN -1
                       ELSE IF i = self.layer_count - 1 THEN 1
                       ELSE 0
        signs(location) == <<get_sign(location[1]), get_sign(location[2]),
                             get_sign(location[3]), get_sign(location[4])>>
    IN  signs(piece_location(self, piece))

\* a slip of sticker_face: the sign of the original face is not looked at
sticker_face_unsigned(self, sticker) ==
    LET sticker_info == puzzle_description(self.layer_count).stickers[sticker + 1]
        original_face == FaceEnum_from(sticker_info.color)
    IN  self.piece_states[sticker_info.piece][FaceEnum_axis(original_face) + 1]

\* Rubiks4D::sticker_face: the face the sticker is on now
sticker_face(self, sticker) ==
    LET sticker_info == puzzle_description(self.layer_count).stickers[sticker + 1]
        original_face == FaceEnum_from(sticker_info.color)
        current_face == self.piece_states[sticker_info.piece][FaceEnum_axis(original_face) + 1]
    IN  IF FaceEnum_sign(original_face) = Sign.Pos
        THEN current_face
        ELSE FaceEnum_opposite(current_face)

\* Rubiks4D::sticker_signs_within_face: the dot products of the location
\* signs of the sticker's piece with the basis vectors of its face
sticker_signs_within_face(self, sticker) ==
    LET dots(piece_loc, basis) ==
            <<piece_loc[FaceEnum_axis(basis[1]) + 1] * FaceEnum_sign(basis[1]),
              piece_loc[FaceEnum_axis(basis[2]) + 1] * FaceEnum_sign(basis[2]),
              piece_loc[FaceEnum_axis(basis[3]) + 1] * FaceEnum_sign(basis[3])>>
    IN  dots(piece_location_signs(
                 self, puzzle_description(self.layer_count).stickers[sticker + 1].piece),
             basis_faces(sticker_face(self, sticker)))

\* a slip of the click twists of sticker_geometry: the counterclockwise
\* twist is the clockwise one
click_twists_same_both(self, sticker) ==
    LET clicks(face, twist_cw) ==
            [twist_ccw |-> twist_cw,
             twist_cw |-> twist_cw,
             twist_recenter |->
                LET made == make_recenter_twist(self.layer_count, face)
                IN  IF made.ok THEN Some(made.twist) ELSE None]
        with_layers(face, twist_direction) ==
            IF twist_direction = None THEN None
            ELSE Some([axis |-> face, direction |-> twist_direction[1],
                       layers |-> LayerMask_default])
        on_face(face) ==
            clicks(face,
                   with_layers(face, from_signs_within_face(
                                         sticker_signs_within_face(self, sticker))))
    IN  on_face(sticker_face(self, sticker))

\* the twists sticker_geometry attaches to a sticker for the clicks:
\* [twist_ccw, twist_cw, twist_recenter]
click_twists(self, sticker) ==
    LET clicks(face, twist_cw) ==
            [twist_ccw |-> IF twist_cw = None THEN None
                           ELSE Some(Twist_rev(twist_cw[1])),
             twist_cw |-> twist_cw,
             twist_recenter |->
                LET made == make_recenter_twist(self.layer_count, face)
                IN  IF made.ok THEN Some(made.twist) ELSE None]
        with_layers(face, twist_direction) ==
            IF twist_direction = None THEN None
            ELSE Some([axis |-> face, direction |-> twist_direction[1],
                       layers |-> LayerMask_default])
        on_face(face) ==
            clicks(face,
                   with_layers(face, from_signs_within_face(
                                         sticker_signs_within_face(self, sticker))))
    IN  on_face(sticker_face(self, sticker))

\* Puzzle::twist: Err on a twist of another puzzle type, else the family's twist
Puzzle_twist(self, twist) ==
    IF twist.ty # Puzzle_ty(self)
    THEN [ok |-> FALSE, puzzle |-> self]
    ELSE [ok |-> TRUE, puzzle |-> Rubiks4D_twist(self, twist)]

----------------------------------------------------------------------------
(* f32 values of the controller, in fixed point: F32_ONE units make 1.0.   *)
(* `progress` is always finite and is kept as its number of units.         *)

F32_ONE == 1000

\* MIN_TWIST_DELTA = 1.0 / 3.0, kept as the exact fraction
MIN_TWIST_DELTA == [num |-> 1, den |-> 3]

\* EXP_TWIST_FACTOR = 0.5, kept as the exact fraction
EXP_TWIST_FACTOR == [num |-> 1, den |-> 2]

\* (k as f32 * EXP_TWIST_FACTOR).exp() in units, rounded: e^(k/2)
exp_units(k) ==
    CASE k = 0 -> F32_ONE
      [] k = 1 -> 1649
      [] k = 2 -> 2718
      [] k = 3 -> 4482
      [] k = 4 -> 7389
      [] OTHER -> 12182

\* an f32: a finite number of units, or NaN, or an infinity
Finite(units) == [kind |-> "finite", units |-> units]

NaN == [kind |-> "NaN", units |-> 0]

Infinity == [kind |-> "inf", units |-> 0]

\* Duration::as_secs_f32 of a Duration given in milliseconds; a Duration is
\* never negative
as_secs_f32(delta_ms) == Finite((delta_ms * F32_ONE) \div 1000)

\* secs / twist_duration for a finite secs >= 0: NaN for 0/0 and for a NaN
\* divisor, an infinity for x/0, zero for x/infinity, the quotient otherwise
f32_div(secs, twist_duration) ==
    CASE twist_duration.kind = "NaN" -> NaN
      [] twist_duration.kind = "inf" -> Finite(0)
      [] twist_duration.units = 0 -> (IF secs.units = 0 THEN NaN ELSE Infinity)
      [] twist_duration.units > 0 ->
            Finite((secs.units * F32_ONE) \div twist_duration.units)
      [] OTHER ->
            Finite(-((secs.units * F32_ONE) \div (-twist_duration.units)))

\* base_speed * speed_mod, speed_mod being positive and finite, in units
f32_mul(base_speed, speed_mod) ==
    IF base_speed.kind # "finite"
    THEN base_speed
    ELSE IF base_speed.units >= 0
         THEN Finite((base_speed.units * speed_mod) \div F32_ONE)
         ELSE Finite(-(((-base_speed.units) * speed_mod) \div F32_ONE))

\* a slip of the range check: the lower bound is not checked
in_min_twist_range_unsigned(twist_delta) ==
    /\ twist_delta.kind = "finite"
    /\ twist_delta.units * MIN_TWIST_DELTA.den < MIN_TWIST_DELTA.num * F32_ONE

\* (0.0..MIN_TWIST_DELTA).contains(&twist_delta)
in_min_twist_range(twist_delta) ==
    /\ twist_delta.kind = "finite"
    /\ 0 <= twist_delta.units
    /\ twist_delta.units * MIN_TWIST_DELTA.den < MIN_TWIST_DELTA.num * F32_ONE

----------------------------------------------------------------------------
(* PuzzleController.  A handler is an operator from the controller record  *)
(* (and its arguments) to [self |-> the controller afterwards, ret |-> the *)
(* value returned].                                                        *)

PuzzleController_new(ty) ==
    [displayed |-> Puzzle_new(ty),
     latest |-> Puzzle_new(ty),
     twist_queue |-> <<>>,
     queue_max |-> 0,
     progress |-> 0,
     is_unsaved |-> FALSE,
     scramble_state |-> "None",
     scramble |-> <<>>,
     undo_buffer |-> <<>>,
     redo_buffer |-> <<>>]

PuzzleController_ty(self) == Puzzle_ty(self.latest)

\* Vec::last
last_of(buffer) == IF buffer = <<>> THEN None ELSE Some(buffer[Len(buffer)])

\* Vec::pop, the vector that remains
pop_of(buffer) == SubSeq(buffer, 1, Len(buffer) - 1)

\* a slip of undo: the twist itself is queued for animation, not its reverse
undo_queues_twist(self) ==
    IF self.undo_buffer # <<>>
    THEN LET twist == self.undo_buffer[Len(self.undo_buffer)]
             popped == [self EXCEPT !.undo_buffer = pop_of(self.undo_buffer),
                                    !.is_unsaved = TRUE]
             applied == Puzzle_twist(popped.latest, Twist_rev(twist))
         IN  IF ~applied.ok
             THEN [self |-> popped, ret |-> "Err"]
             ELSE [self |-> [popped EXCEPT
                                !.latest = applied.puzzle,
                                !.twist_queue = Append(popped.twist_queue, twist),
                                !.redo_buffer = Append(popped.redo_buffer, twist)],
                   ret |-> "Ok"]
    ELSE [self |-> self, ret |-> "Err"]

\* a slip of undo: the controller is marked unsaved before the stack is popped
undo_marks_unsaved_first(self) ==
    IF self.undo_buffer # <<>>
    THEN LET twist == self.undo_buffer[Len(self.undo_buffer)]
             popped == [self EXCEPT !.undo_buffer = pop_of(self.undo_buffer),
                                    !.is_unsaved = TRUE]
             applied == Puzzle_twist(popped.latest, Twist_rev(twist))
         IN  IF ~applied.ok
             THEN [self |-> popped, ret |-> "Err"]
             ELSE [self |-> [popped EXCEPT
                                !.latest = applied.puzzle,
                                !.twist_queue = Append(popped.twist_queue, Twist_rev(twist)),
                                !.redo_buffer = Append(popped.redo_buffer, twist)],
                   ret |-> "Ok"]
    ELSE [self |-> [self EXCEPT !.is_unsaved = TRUE], ret |-> "Err"]

\* PuzzleController::undo
undo(self) ==
    IF self.undo_buffer # <<>>
    THEN LET twist == self.undo_buffer[Len(self.undo_buffer)]
             popped == [self EXCEPT !.undo_buffer = pop_of(self.undo_buffer),
                                    !.is_unsaved = TRUE]
             applied == Puzzle_twist(popped.latest, Twist_rev(twist))
         IN  IF ~applied.ok
             THEN [self |-> popped, ret |-> "Err"]
             ELSE [self |-> [popped EXCEPT
                                !.latest = applied.puzzle,
                                !.twist_queue = Append(popped.twist_queue, Twist_rev(twist)),
                                !.redo_buffer = Append(popped.redo_buffer, twist)],
                   ret |-> "Ok"]
    ELSE [self |-> self, ret |-> "Err"]

\* a slip of redo: the redone twist is not put back on the undo stack
redo_forgets_undo(self) ==
    IF self.redo_buffer # <<>>
    THEN LET twist == self.redo_buffer[Len(self.redo_buffer)]
             popped == [self EXCEPT !.redo_buffer = pop_of(self.redo_buffer),
                                    !.is_unsaved = TRUE]
             applied == Puzzle_twist(popped.latest, twist)
         IN  IF ~applied.ok
             THEN [self |-> popped, ret |-> "Err"]
             ELSE [self |-> [popped EXCEPT
                                !.latest = applied.puzzle,
                                !.twist_queue = Append(popped.twist_queue, twist)],
                   ret |-> "Ok"]
    ELSE [self |-> self, ret |-> "Err"]

\* a slip of redo: the reverse of the redone twist is applied to latest
redo_applies_reverse(self) ==
    IF self.redo_buffer # <<>>
    THEN LET twist == self.redo_buffer[Len(self.redo_buffer)]
             popped == [self EXCEPT !.redo_buffer = pop_of(self.redo_buffer),
                                    !.is_unsaved = TRUE]
             applied == Puzzle_twist(popped.latest, Twist_rev(twist))
         IN  IF ~applied.ok
             THEN [self |-> popped, ret |-> "Err"]
             ELSE [self |-> [popped EXCEPT
                                !.latest = applied.puzzle,
                                !.twist_queue = Append(popped.twist_queue, twist),
                                !.undo_buffer = Append(popped.undo_buffer, twist)],
                   ret |-> "Ok"]
    ELSE [self |-> self, ret |-> "Err"]

\* PuzzleController::redo
redo(self) ==
    IF self.redo_buffer # <<>>
    THEN LET twist == self.redo_buffer[Len(self.redo_buffer)]
             popped == [self EXCEPT !.redo_buffer = pop_of(self.redo_buffer),
                                    !.is_unsaved = TRUE]
             applied == Puzzle_twist(popped.latest, twist)
         IN  IF ~applied.ok
             THEN [self |-> popped, ret |-> "Err"]
             ELSE [self |-> [popped EXCEPT
                                !.latest = applied.puzzle,
                                !.twist_queue = Append(popped.twist_queue, twist),
                                !.undo_buffer = Append(popped.undo_buffer, twist)],
                   ret |-> "Ok"]
    ELSE [self |-> self, ret |-> "Err"]

\* a slip of twist: a twist that cancels the last one is recorded like any other
twist_never_merges(self, new_twist) ==
    IF new_twist.ty # PuzzleController_ty(self)
    THEN [self |-> self, ret |-> "Err"]
    ELSE LET cleared == [self EXCEPT !.is_unsaved = TRUE, !.redo_buffer = <<>>]
             applied == Puzzle_twist(cleared.latest, new_twist)
         IN  IF ~applied.ok
             THEN [self |-> cleared, ret |-> "Err"]
             ELSE [self |-> [cleared EXCEPT
                                !.latest = applied.puzzle,
                                !.twist_queue = Append(cleared.twist_queue, new_twist),
                                !.undo_buffer = Append(cleared.undo_buffer, new_twist)],
                   ret |-> "Ok"]

\* a slip of twist: the redo stack survives a new twist
twist_keeps_redo(self, new_twist) ==
    IF new_twist.ty # PuzzleController_ty(self)
    THEN [self |-> self, ret |-> "Err"]
    ELSE LET cleared == [self EXCEPT !.is_unsaved = TRUE]
         IN  IF last_of(cleared.undo_buffer) = Some(Twist_rev(new_twist))
             THEN undo(cleared)
             ELSE LET applied == Puzzle_twist(cleared.latest, new_twist)
                  IN  IF ~applied.ok
                      THEN [self |-> cleared, ret |-> "Err"]
                      ELSE [self |-> [cleared EXCEPT
                                         !.latest = applied.puzzle,
                                         !.twist_queue = Append(cleared.twist_queue, new_twist),
                                         !.undo_buffer = Append(cleared.undo_buffer, new_twist)],
                            ret |-> "Ok"]

\* a slip of twist: the controller is marked and the redo stack cleared
\* before the puzzle type is compared
twist_marks_before_check(self, new_twist) ==
    LET cleared == [self EXCEPT !.is_unsaved = TRUE, !.redo_buffer = <<>>]
    IN  IF new_twist.ty # PuzzleController_ty(self)
        THEN [self |-> cleared, ret |-> "Err"]
        ELSE IF last_of(cleared.undo_buffer) = Some(Twist_rev(new_twist))
             THEN undo(cleared)
             ELSE LET applied == Puzzle_twist(cleared.latest, new_twist)
                  IN  IF ~applied.ok
                      THEN [self |-> cleared, ret |-> "Err"]
                      ELSE [self |-> [cleared EXCEPT
                                         !.latest = applied.puzzle,
                                         !.twist_queue = Append(cleared.twist_queue, new_twist),
                                         !.undo_buffer = Append(cleared.undo_buffer, new_twist)],
                            ret |-> "Ok"]

\* a slip of twist: the new twist is compared with the top of the undo
\* stack itself, not with its reverse
twist_merges_repetition(self, new_twist) ==
    IF new_twist.ty # PuzzleController_ty(self)
    THEN [self |-> self, ret |-> "Err"]
    ELSE LET cleared == [self EXCEPT !.is_unsaved = TRUE, !.redo_buffer = <<>>]
         IN  IF last_of(cleared.undo_buffer) = Some(new_twist)
             THEN undo(cleared)
             ELSE LET applied == Puzzle_twist(cleared.latest, new_twist)
                  IN  IF ~applied.ok
                      THEN [self |-> cleared, ret |-> "Err"]
                      ELSE [self |-> [cleared EXCEPT
                                         !.latest = applied.puzzle,
                                         !.twist_queue = Append(cleared.twist_queue, new_twist),
                                         !.undo_buffer = Append(cleared.undo_buffer, new_twist)],
                            ret |-> "Ok"]

\* PuzzleController::twist
twist(self, new_twist) ==
    IF new_twist.ty # PuzzleController_ty(self)
    THEN [self |-> self, ret |-> "Err"]
    ELSE LET cleared == [self EXCEPT !.is_unsaved = TRUE, !.redo_buffer = <<>>]
         IN  IF last_of(cleared.undo_buffer) = Some(Twist_rev(new_twist))
             THEN undo(cleared)
             ELSE LET applied == Puzzle_twist(cleared.latest, new_twist)
                  IN  IF ~applied.ok
                      THEN [self |-> cleared, ret |-> "Err"]
                      ELSE [self |-> [cleared EXCEPT
                                         !.latest = applied.puzzle,
                                         !.twist_queue = Append(cleared.twist_queue, new_twist),
                                         !.undo_buffer = Append(cleared.undo_buffer, new_twist)],
                            ret |-> "Ok"]

\* base_speed * speed_mod as advance computes it for a queue of the given
\* length, before the range check
computed_twist_delta(queue_len, delta, prefs) ==
    f32_mul(f32_div(as_secs_f32(delta), prefs.twist_duration),
            IF prefs.dynamic_twist_speed THEN exp_units(queue_len - 1) ELSE F32_ONE)

\* twist_delta as added to progress, in units: 1.0 when the computed value
\* lies outside 0.0..MIN_TWIST_DELTA
twist_delta(queue_len, delta, prefs) ==
    LET checked(computed) ==
            IF ~in_min_twist_range(computed) THEN F32_ONE ELSE computed.units
    IN  checked(computed_twist_delta(queue_len, delta, prefs))

\* a slip of advance: progress is not reset when a twist is finalized
advance_keeps_progress(self, delta, prefs) ==
    IF self.twist_queue = <<>>
    THEN [self |-> [self EXCEPT !.queue_max = 0], ret |-> "false"]
    ELSE IF self.progress >= F32_ONE
    THEN LET applied == Puzzle_twist(self.displayed, Head(self.twist_queue))
         IN  [self |-> [self EXCEPT !.displayed = applied.puzzle,
                                    !.twist_queue = Tail(self.twist_queue)],
              ret |-> IF applied.ok THEN "true" ELSE "panic"]
    ELSE LET queue_max == IF self.queue_max >= Len(self.twist_queue)
                          THEN self.queue_max
                          ELSE Len(self.twist_queue)
             sum == self.progress + twist_delta(Len(self.twist_queue), delta, prefs)
         IN  [self |-> [self EXCEPT !.queue_max = queue_max,
                                    !.progress = IF sum >= F32_ONE THEN F32_ONE ELSE sum],
              ret |-> "true"]

\* a slip of advance: a repaint is requested on an empty queue too
advance_always_repaints(self, delta, prefs) ==
    IF self.twist_queue = <<>>
    THEN [self |-> [self EXCEPT !.queue_max = 0], ret |-> "true"]
    ELSE IF self.progress >= F32_ONE
    THEN LET applied == Puzzle_twist(self.displayed, Head(self.twist_queue))
         IN  [self |-> [self EXCEPT !.displayed = applied.puzzle,
                                    !.twist_queue = Tail(self.twist_queue),
                                    !.progress = 0],
              ret |-> IF applied.ok THEN "true" ELSE "panic"]
    ELSE LET queue_max == IF self.queue_max >= Len(self.twist_queue)
                          THEN self.queue_max
                          ELSE Len(self.twist_queue)
             sum == self.progress + twist_delta(Len(self.twist_queue), delta, prefs)
         IN  [self |-> [self EXCEPT !.queue_max = queue_max,
                                    !.progress = IF sum >= F32_ONE THEN F32_ONE ELSE sum],
              ret |-> "true"]

\* a slip of advance: progress is not capped at 1.0
advance_without_cap(self, delta, prefs) ==
    IF self.twist_queue = <<>>
    THEN [self |-> [self EXCEPT !.queue_max = 0], ret |-> "false"]
    ELSE IF self.progress >= F32_ONE
    THEN LET applied == Puzzle_twist(self.displayed, Head(self.twist_queue))
         IN  [self |-> [self EXCEPT !.displayed = applied.puzzle,
                                    !.twist_queue = Tail(self.twist_queue),
                                    !.progress = 0],
              ret |-> IF applied.ok THEN "true" ELSE "panic"]
    ELSE LET queue_max == IF self.queue_max >= Len(self.twist_queue)
                          THEN self.queue_max
                          ELSE Len(self.twist_queue)
             sum == self.progress + twist_delta(Len(self.twist_queue), delta, prefs)
         IN  [self |-> [self EXCEPT !.queue_max = queue_max,
                                    !.progress = sum],
              ret |-> "true"]

\* a slip of advance: a twist is finalized only once progress exceeds 1.0
advance_past_one(self, delta, prefs) ==
    IF self.twist_queue = <<>>
    THEN [self |-> [self EXCEPT !.queue_max = 0], ret |-> "false"]
    ELSE IF self.progress > F32_ONE
    THEN LET applied == Puzzle_twist(self.displayed, Head(self.twist_queue))
         IN  [self |-> [self EXCEPT !.displayed = applied.puzzle,
                                    !.twist_queue = Tail(self.twist_queue),
                                    !.progress = 0],
              ret |-> IF applied.ok THEN "true" ELSE "panic"]
    ELSE LET queue_max == IF self.queue_max >= Len(self.twist_queue)
                          THEN self.queue_max
                          ELSE Len(self.twist_queue)
             sum == self.progress + twist_delta(Len(self.twist_queue), delta, prefs)
         IN  [self |-> [self EXCEPT !.queue_max = queue_max,
                                    !.progress = IF sum >= F32_ONE THEN F32_ONE ELSE sum],
              ret |-> "true"]

\* PuzzleController::advance; delta in ms, prefs.interaction.twist_duration
\* an f32 of seconds
advance(self, delta, prefs) ==
    IF self.twist_queue = <<>>
    THEN [self |-> [self EXCEPT !.queue_max = 0], ret |-> "false"]
    ELSE IF self.progress >= F32_ONE
    THEN LET applied == Puzzle_twist(self.displayed, Head(self.twist_queue))
         IN  [self |-> [self EXCEPT !.displayed = applied.puzzle,
                                    !.twist_queue = Tail(self.twist_queue),
                                    !.progress = 0],
              ret |-> IF applied.ok THEN "true" ELSE "panic"]
    ELSE LET queue_max == IF self.queue_max >= Len(self.twist_queue)
                          THEN self.queue_max
                          ELSE Len(self.twist_queue)
             sum == self.progress + twist_delta(Len(self.twist_queue), delta, prefs)
         IN  [self |-> [self EXCEPT !.queue_max = queue_max,
                                    !.progress = IF sum >= F32_ONE THEN F32_ONE ELSE sum],
              ret |-> "true"]

RECURSIVE drain(_, _)
\* the loop of catch_up: every queued twist applied to `displayed`, in order;
\* ok is FALSE when expect fails
drain(displayed, queue) ==
    LET expect(applied) ==
            IF ~applied.ok THEN applied ELSE drain(applied.puzzle, Tail(queue))
    IN  IF queue = <<>>
        THEN [ok |-> TRUE, puzzle |-> displayed]
        ELSE expect(Puzzle_twist(displayed, Head(queue)))

\* a slip of catch_up: the controller is marked saved
catch_up_marks_saved(self) ==
    LET after(drained) ==
            [self |-> [self EXCEPT !.displayed = drained.puzzle,
                                   !.twist_queue = <<>>,
                                   !.progress = 0,
                                   !.is_unsaved = FALSE],
             ret |-> IF drained.ok /\ drained.puzzle = self.latest
                     THEN "Ok" ELSE "panic"]
    IN  after(drain(self.displayed, self.twist_queue))

\* a slip of catch_up: progress is not reset
catch_up_keeps_progress(self) ==
    LET after(drained) ==
            [self |-> [self EXCEPT !.displayed = drained.puzzle,
                                   !.twist_queue = <<>>],
             ret |-> IF drained.ok /\ drained.puzzle = self.latest
                     THEN "Ok" ELSE "panic"]
    IN  after(drain(self.displayed, self.twist_queue))

\* PuzzleController::catch_up; ret is "panic" when expect or assert_eq! fails
catch_up(self) ==
    LET after(drained) ==
            [self |-> [self EXCEPT !.displayed = drained.puzzle,
                                   !.twist_queue = <<>>,
                                   !.progress = 0],
             ret |-> IF drained.ok /\ drained.puzzle = self.latest
                     THEN "Ok" ELSE "panic"]
    IN  after(drain(self.displayed, self.twist_queue))

\* cos of an angle of 0..PI/2 given in thousandths of a radian, in units of
\* 1 / F32_ONE, by the series 1 - a^2/2! + a^4/4! - a^6/6! + a^8/8!
cos_first_quadrant(angle) ==
    LET square == (angle * angle) \div F32_ONE
        second == (F32_ONE * square) \div (2 * F32_ONE)
        fourth == (second * square) \div (12 * F32_ONE)
        sixth == (fourth * square) \div (30 * F32_ONE)
        eighth == (sixth * square) \div (56 * F32_ONE)
    IN  F32_ONE - second + fourth - sixth + eighth

\* PI in thousandths
PI == 3142

\* interpolate::COSINE, |x| (1.0 - (x * PI).cos()) / 2.0, on x in units of
\* 1 / F32_ONE; cos(a) = -cos(PI - a) beyond PI / 2
INTERPOLATION_FN(fraction) ==
    LET angle == (fraction * PI) \div F32_ONE
        cos == IF 2 * angle <= PI
               THEN cos_first_quadrant(angle)
               ELSE 0 - cos_first_quadrant(PI - angle)
    IN  (F32_ONE - cos) \div 2

\* a slip of current_twist: the twist at the back of the queue is reported
current_twist_back(self) ==
    IF self.twist_queue # <<>>
    THEN Some([twist |-> self.twist_queue[Len(self.twist_queue)],
               t |-> INTERPOLATION_FN(self.progress)])
    ELSE None

\* PuzzleController::current_twist: the twist being animated with its eased
\* progress
current_twist(self) ==
    IF self.twist_queue # <<>>
    THEN Some([twist |-> self.twist_queue[1], t |-> INTERPOLATION_FN(self.progress)])
    ELSE None

\* Matrix4::identity()
Matrix4_identity == [rotation |-> None]

\* Twist::affects_piece: the piece is in a layer the twist turns, in the
\* state on display
Twist_affects_piece(self, made, piece) ==
    is_piece_affected_by_twist(self.displayed, made, piece)

\* Twist::model_transform(t): the rotation about the twist axis by t of the
\* turn of the direction; the matrix is kept as the rotation it stands for,
\* and a rotation by nothing is the identity
Twist_model_transform(made, t) ==
    IF t = 0 THEN Matrix4_identity
    ELSE [rotation |-> Some([axis |-> made.axis, direction |-> made.direction,
                             t |-> t])]

\* PuzzleController::model_transform_for_piece
model_transform_for_piece(self, piece) ==
    LET current == current_twist(self)
    IN  IF current # None /\ Twist_affects_piece(self, current[1].twist, piece)
        THEN Twist_model_transform(current[1].twist, current[1].t)
        ELSE Matrix4_identity

\* the scoring metrics: one that merges nothing, one that merges a twist
\* with a preceding twist of the same axis and layers, and one that also
\* merges twists of one axis whose layers are disjoint
TwistMetric == {"Separate", "Repetition", "Axis"}

\* Twist::can_combine(previous, metric): whether the metric counts this
\* twist as one move with the twist before it; a twist without a predecessor
\* combines with nothing
can_combine(this, previous, metric) ==
    /\ previous # None
    /\ metric # "Separate"
    /\ this.axis = previous[1].axis
    /\ \/ this.layers = previous[1].layers
       \/ /\ metric = "Axis"
          /\ \A layer \in 0..(MAX_LAYER_COUNT - 1) :
                ~(LayerMask_index(this.layers, layer)
                    /\ LayerMask_index(previous[1].layers, layer))

\* Iterator::zip: pairs up to the end of the shorter sequence
zip(left, right) ==
    [i \in 1..(IF Len(left) <= Len(right) THEN Len(left) ELSE Len(right)) |->
        <<left[i], right[i]>>]

\* twists.clone().map(Some)
map_Some(twists) == [i \in 1..Len(twists) |-> Some(twists[i])]

\* itertools::put_back(iter).with_value(value): value first, then iter
put_back_with_value(iter, value) == <<value>> \o iter

\* a slip of twist_count: nothing is put back, so each twist is paired
\* with itself
twist_count_without_put_back(self, metric) ==
    LET twists == self.undo_buffer
        prev_twists == map_Some(twists)
        not_combined(pair) == ~can_combine(pair[1], pair[2], metric)
    IN  Len(SelectSeq(zip(twists, prev_twists), not_combined))

\* PuzzleController::twist_count
twist_count(self, metric) ==
    LET twists == self.undo_buffer
        prev_twists == put_back_with_value(map_Some(twists), None)
        not_combined(pair) == ~can_combine(pair[1], pair[2], metric)
    IN  Len(SelectSeq(zip(twists, prev_twists), not_combined))

----------------------------------------------------------------------------
(* preferences/keybinds.rs: Key and KeyCombo *)

\* Key::Sc(KeyMappingCode) and Key::Vk(VirtualKeyCode)
Sc(code) == [kind |-> "Sc", code |-> code]

Vk(code) == [kind |-> "Vk", code |-> code]

Key_is_shift(self) ==
    CASE self \in {Sc("ShiftLeft"), Sc("ShiftRight")} -> TRUE
      [] self \in {Vk("LShift"), Vk("RShift")} -> TRUE
      [] OTHER -> FALSE

Key_is_ctrl(self) ==
    CASE self \in {Sc("ControlLeft"), Sc("ControlRight")} -> TRUE
      [] self \in {Vk("LControl"), Vk("RControl")} -> TRUE
      [] OTHER -> FALSE

Key_is_alt(self) ==
    CASE self \in {Sc("AltLeft"), Sc("AltRight")} -> TRUE
      [] self \in {Vk("LAlt"), Vk("RAlt")} -> TRUE
      [] OTHER -> FALSE

Key_is_logo(self) ==
    CASE self \in {Sc("MetaLeft"), Sc("MetaRight")} -> TRUE
      [] self \in {Vk("LWin"), Vk("RWin")} -> TRUE
      [] OTHER -> FALSE

\* KeyCombo::default(), from #[derive(Default)]
KeyCombo_default ==
    [keys |-> <<>>, ctrl |-> FALSE, shift |-> FALSE, alt |-> FALSE, logo |-> FALSE]

\* a slip of validate: the shift flag is cleared by an alt key
validate_shift_by_alt(self) ==
    LET ctrl == \E i \in DOMAIN self.keys : Key_is_ctrl(self.keys[i])
        alt == \E i \in DOMAIN self.keys : Key_is_alt(self.keys[i])
        logo == \E i \in DOMAIN self.keys : Key_is_logo(self.keys[i])
    IN  [keys |-> self.keys,
         ctrl |-> self.ctrl /\ ~ctrl,
         shift |-> self.shift /\ ~alt,
         alt |-> self.alt /\ ~alt,
         logo |-> self.logo /\ ~logo]

\* KeyCombo::validate: the four accumulators are or-ed over the keys, then
\* each flag is kept only if its accumulator stayed false
validate(self) ==
    LET ctrl == \E i \in DOMAIN self.keys : Key_is_ctrl(self.keys[i])
        shift == \E i \in DOMAIN self.keys : Key_is_shift(self.keys[i])
        alt == \E i \in DOMAIN self.keys : Key_is_alt(self.keys[i])
        logo == \E i \in DOMAIN self.keys : Key_is_logo(self.keys[i])
    IN  [keys |-> self.keys,
         ctrl |-> self.ctrl /\ ~ctrl,
         shift |-> self.shift /\ ~shift,
         alt |-> self.alt /\ ~alt,
         logo |-> self.logo /\ ~logo]

\* KeyCombo::new; a ModifiersState is the set of its bits
KeyCombo_new(keys, mods) ==
    validate([keys |-> keys,
              ctrl |-> "CTRL" \in mods,
              shift |-> "SHIFT" \in mods,
              alt |-> "ALT" \in mods,
              logo |-> "LOGO" \in mods])

----------------------------------------------------------------------------
(* State *)

VARIABLES
    displayed,      \* PuzzleController.displayed
    latest,         \* PuzzleController.latest
    twist_queue,    \* PuzzleController.twist_queue, front first
    queue_max,      \* PuzzleController.queue_max
    progress,       \* PuzzleController.progress, in units of 1 / F32_ONE
    is_unsaved,     \* PuzzleController.is_unsaved
    undo_buffer,    \* PuzzleController.undo_buffer, top last
    redo_buffer,    \* PuzzleController.redo_buffer, top last
    last,           \* the last call made on the controller and what it returned
    puzzle,         \* a Rubiks4D twisted directly, without a controller
    before,         \* `puzzle` as it was before the twist in `probe`
    scrambles,      \* the number of twists that scrambled `puzzle`
    probe,          \* the twist last applied to `puzzle` to be reversed
    phase,          \* "idle", "twisted" (probe applied) or "reversed"
    steady_frame,   \* None while commands arrive; then the frame every
                    \* further advance is called with
    frames,         \* the number of frames rendered since then, modulo 2
    cache,          \* the HashMap behind CACHE, filled by puzzle_description
    threads,        \* per thread: its position in puzzle_description, the
                    \* argument and the outcome of its last call
    mutex,          \* the Mutex of CACHE: its holder, its poison flag and the
                    \* HashMap of references it guards
    leaked_boxes,   \* the descriptions leaked by Box::leak, by address
    returned,       \* the <<layer_count, reference>> pairs handed to callers
    key_combo,      \* a KeyCombo
    key_last        \* how key_combo was made: "default", "input", "new", "validate"

ctrl_vars == <<displayed, latest, twist_queue, queue_max, progress, is_unsaved,
               undo_buffer, redo_buffer, last>>

puzzle_vars == <<puzzle, before, scrambles, probe, phase>>

thread_vars == <<threads, mutex, leaked_boxes, returned>>

key_vars == <<key_combo, key_last>>

env_vars == <<steady_frame, frames, cache, thread_vars, key_vars>>

vars == <<displayed, latest, twist_queue, queue_max, progress, is_unsaved,
          undo_buffer, redo_buffer, last, puzzle, before, scrambles, probe, phase,
          steady_frame, frames, cache, threads, mutex, leaked_boxes, returned,
          key_combo, key_last>>

\* the controller as one record
Controller ==
    [displayed |-> displayed,
     latest |-> latest,
     twist_queue |-> twist_queue,
     queue_max |-> queue_max,
     progress |-> progress,
     is_unsaved |-> is_unsaved,
     scramble_state |-> "None",
     scramble |-> <<>>,
     undo_buffer |-> undo_buffer,
     redo_buffer |-> redo_buffer]

\* the controller becomes `result.self`, and the call is recorded in `last`
Becomes(op, result) ==
    /\ displayed' = result.self.displayed
    /\ latest' = result.self.latest
    /\ twist_queue' = result.self.twist_queue
    /\ queue_max' = result.self.queue_max
    /\ progress' = result.self.progress
    /\ is_unsaved' = result.self.is_unsaved
    /\ undo_buffer' = result.self.undo_buffer
    /\ redo_buffer' = result.self.redo_buffer
    /\ last' = [op |-> op, ret |-> result.ret]

\* PuzzleController::do_recenter_command:
\* self.twist(Twist::from_face_recenter(face)?)
do_recenter_command(self, ty, face) ==
    LET recenter == Twist_from_face_recenter(ty, face)
    IN  IF ~recenter.ok
        THEN [self |-> self, ret |-> "Err"]
        ELSE twist(self, recenter.twist)

----------------------------------------------------------------------------
(* Bounds and inputs *)

\* the longest undo history the model builds
MaxHistory == 2

\* the longest animation queue the model builds
MaxQueue == 2

\* the number of scrambling twists applied to `puzzle` before a probe
MaxScramble == 1

\* the layer count of the controller's puzzle
ControllerLayerCount == 2

\* the number of layer counts the model lets puzzle_description cache
MaxCached == 3

\* the outcomes of a call of puzzle_description: none yet, a panic, a reference
NoResult == [kind |-> "none", reference |-> 0]

Panicked == [kind |-> "panic", reference |-> 0]

Reference(address) == [kind |-> "reference", reference |-> address]

\* the threads that call puzzle_description
MaxThreads == 2

Threads == 1..MaxThreads

\* the number of calls each thread makes
MaxCalls == 2

\* the u8 arguments of the calls: below the range, in it, above it
LayerCountArguments == {MIN_LAYER_COUNT - 1, MIN_LAYER_COUNT, MIN_LAYER_COUNT + 1,
                        MAX_LAYER_COUNT + 1}

\* the puzzle type of the controller
ControllerTy == Rubiks4D_ty(ControllerLayerCount)

\* a twist value
Twist(ty, axis, direction, layers) ==
    [ty |-> ty, axis |-> axis, direction |-> direction, layers |-> layers]

\* twists of the controller's type the commands issue, with their reverses
MatchingTwists ==
    LET base == {Twist(ControllerTy, FaceEnum.R, TwistDirectionEnum.U, LayerMask_default),
                 Twist(ControllerTy, FaceEnum.I, TwistDirectionEnum.UFR,
                       all_layers(ControllerLayerCount))}
    IN  base \cup {Twist_rev(t) : t \in base}

\* a twist made for a puzzle of another type
ForeignTwists ==
    {Twist(Rubiks4D_ty(ControllerLayerCount + 1), FaceEnum.R, TwistDirectionEnum.U,
           LayerMask_default)}

TwistInputs == MatchingTwists \cup ForeignTwists

\* a frame: the time delta in ms with the preferences advance reads,
\* twist_duration (an f32 of seconds) and dynamic_twist_speed
Frame(delta, twist_duration, dynamic_twist_speed) ==
    [delta |-> delta,
     prefs |-> [twist_duration |-> twist_duration,
                dynamic_twist_speed |-> dynamic_twist_speed]]

\* the frames advance is called with: three tenths of a twist at constant
\* and at dynamic speed, no time at all, the quotients NaN, infinity and a
\* negative number, and the twist durations infinity and NaN
FrameInputs ==
    {Frame(120, Finite(400), FALSE), Frame(120, Finite(400), TRUE),
     Frame(0, Finite(400), FALSE), Frame(0, Finite(0), FALSE),
     Frame(100, Finite(0), TRUE), Frame(100, Finite(-400), FALSE),
     Frame(100, Infinity, FALSE), Frame(100, NaN, TRUE)}

\* every twist of a Rubiks4D with the given layer count
AllTwists(layer_count) ==
    {Twist(Rubiks4D_ty(layer_count), axis, direction, layers) :
        axis \in 0..7,
        direction \in 0..(TwistDirectionEnum_COUNT - 1),
        layers \in 0..all_layers(layer_count)}

\* the twists that scramble `puzzle`
ScrambleTwists(layer_count) ==
    {Twist(Rubiks4D_ty(layer_count), FaceEnum.R, TwistDirectionEnum.U, LayerMask_default),
     Twist(Rubiks4D_ty(layer_count), FaceEnum.I, TwistDirectionEnum.DFL,
           all_layers(layer_count)),
     Twist(Rubiks4D_ty(layer_count), FaceEnum.U, TwistDirectionEnum.BR, 2)}

----------------------------------------------------------------------------
(* The controller driven by commands and frames *)

InitController ==
    LET new == PuzzleController_new(ControllerTy)
    IN  /\ displayed = new.displayed
        /\ latest = new.latest
        /\ twist_queue = new.twist_queue
        /\ queue_max = new.queue_max
        /\ progress = new.progress
        /\ is_unsaved = new.is_unsaved
        /\ undo_buffer = new.undo_buffer
        /\ redo_buffer = new.redo_buffer
        /\ last = [op |-> "new", ret |-> "Ok"]

InitPuzzleIdle ==
    /\ puzzle = Rubiks4D_new(MIN_LAYER_COUNT)
    /\ before = Rubiks4D_new(MIN_LAYER_COUNT)
    /\ scrambles = 0
    /\ probe = None
    /\ phase = "idle"

InitFrames ==
    /\ steady_frame = None
    /\ frames = 0
    /\ cache = <<>>
    /\ threads = [thread \in Threads |->
                    [pc |-> "idle", layer_count |-> 0, result |-> NoResult,
                     calls |-> 0, aborted |-> 0]]
    /\ mutex = [holder |-> None, poisoned |-> FALSE, map |-> <<>>]
    /\ leaked_boxes = <<>>
    /\ returned = {}

InitEnv ==
    /\ InitFrames
    /\ key_combo = KeyCombo_default
    /\ key_last = "default"

Init == InitController /\ InitPuzzleIdle /\ InitEnv

DoTwist(t) ==
    /\ Len(undo_buffer) < MaxHistory
    /\ Len(twist_queue) < MaxQueue
    /\ Becomes("twist", twist(Controller, t))
    /\ UNCHANGED puzzle_vars
    /\ UNCHANGED env_vars

DoUndo ==
    /\ Len(twist_queue) < MaxQueue
    /\ Becomes("undo", undo(Controller))
    /\ UNCHANGED puzzle_vars
    /\ UNCHANGED env_vars

DoRedo ==
    /\ Len(twist_queue) < MaxQueue
    /\ Becomes("redo", redo(Controller))
    /\ UNCHANGED puzzle_vars
    /\ UNCHANGED env_vars

DoAdvance(delta, prefs) ==
    /\ Becomes("advance", advance(Controller, delta, prefs))
    /\ UNCHANGED puzzle_vars
    /\ UNCHANGED env_vars

DoCatchUp ==
    /\ Becomes("catch_up", catch_up(Controller))
    /\ UNCHANGED puzzle_vars
    /\ UNCHANGED env_vars

Next ==
    \/ \E t \in TwistInputs : DoTwist(t)
    \/ DoUndo
    \/ DoRedo
    \/ \E frame \in FrameInputs : DoAdvance(frame.delta, frame.prefs)
    \/ DoCatchUp

Spec == Init /\ [][Next]_vars

DoRecenter(face) ==
    /\ Len(undo_buffer) < MaxHistory
    /\ Len(twist_queue) < MaxQueue
    /\ Becomes("recenter", do_recenter_command(Controller, ControllerTy, face))
    /\ UNCHANGED puzzle_vars
    /\ UNCHANGED env_vars

NextRecenter ==
    \/ \E face \in 0..7 : DoRecenter(face)
    \/ DoUndo
    \/ DoRedo
    \/ DoCatchUp

SpecRecenter == Init /\ [][NextRecenter]_vars

----------------------------------------------------------------------------
(* A Rubiks4D twisted directly: scrambled, then probed by one twist and    *)
(* its reverse                                                             *)

InitPuzzle ==
    /\ \E layer_count \in MIN_LAYER_COUNT..MaxLayerCount :
          /\ puzzle = Rubiks4D_new(layer_count)
          /\ before = Rubiks4D_new(layer_count)
    /\ scrambles = 0
    /\ probe = None
    /\ phase = "idle"
    /\ InitController
    /\ InitEnv

Scramble(t) ==
    /\ phase = "idle"
    /\ scrambles < MaxScramble
    /\ puzzle' = Rubiks4D_twist(puzzle, t)
    /\ scrambles' = scrambles + 1
    /\ UNCHANGED <<before, probe, phase>>
    /\ UNCHANGED ctrl_vars
    /\ UNCHANGED env_vars

ProbeTwist(t) ==
    /\ phase = "idle"
    /\ before' = puzzle
    /\ probe' = Some(t)
    /\ puzzle' = Rubiks4D_twist(puzzle, t)
    /\ phase' = "twisted"
    /\ UNCHANGED scrambles
    /\ UNCHANGED ctrl_vars
    /\ UNCHANGED env_vars

ProbeReverse ==
    /\ phase = "twisted"
    /\ puzzle' = Rubiks4D_twist(puzzle, Twist_rev(probe[1]))
    /\ phase' = "reversed"
    /\ UNCHANGED <<before, scrambles, probe>>
    /\ UNCHANGED ctrl_vars
    /\ UNCHANGED env_vars

NextPuzzle ==
    \/ phase = "idle" /\ \E t \in ScrambleTwists(puzzle.layer_count) : Scramble(t)
    \/ phase = "idle" /\ \E t \in AllTwists(puzzle.layer_count) : ProbeTwist(t)
    \/ ProbeReverse

SpecPuzzle == InitPuzzle /\ [][NextPuzzle]_vars

----------------------------------------------------------------------------
(* The animation left to run: commands and frames arrive as in Spec until  *)
(* the frame settles; from then on frames are rendered for ever, advance   *)
(* is called once per rendered frame with that frame, and nothing else     *)
(* happens                                                                 *)

Command ==
    /\ steady_frame = None
    /\ \/ \E t \in TwistInputs : DoTwist(t)
       \/ DoUndo
       \/ DoRedo
       \/ \E frame \in FrameInputs : DoAdvance(frame.delta, frame.prefs)

\* the frames whose time delta is positive
PositiveFrames == {frame \in FrameInputs : frame.delta > 0}

Settle(frame) ==
    /\ steady_frame = None
    /\ steady_frame' = Some(frame)
    /\ UNCHANGED ctrl_vars
    /\ UNCHANGED puzzle_vars
    /\ UNCHANGED <<frames, cache, thread_vars, key_vars>>

\* a frame is rendered
FrameRendered ==
    /\ steady_frame # None
    /\ frames' = 1 - frames

\* the frame loop: a frame is rendered and advance is called with it
Animate ==
    /\ FrameRendered
    /\ Becomes("advance", advance(Controller, steady_frame[1].delta, steady_frame[1].prefs))
    /\ UNCHANGED puzzle_vars
    /\ UNCHANGED <<steady_frame, cache, thread_vars, key_vars>>

NextAnimate ==
    \/ Command
    \/ \E frame \in PositiveFrames : Settle(frame)
    \/ Animate

\* the event loop never stops rendering frames, and every frame it renders
\* is a step of Animate
SpecAnimate == Init /\ [][NextAnimate]_vars /\ WF_frames(FrameRendered)

----------------------------------------------------------------------------
(* The cache of descriptions filled by calls of puzzle_description *)

\* puzzle_description(layer_count) for a layer count that passes both
\* assertions; the lock is held for the whole call
Lookup(layer_count) ==
    /\ layer_count \in DOMAIN cache \/ Cardinality(DOMAIN cache) < MaxCached
    /\ cache' = entry_or_insert_with(cache, layer_count)
    /\ UNCHANGED ctrl_vars
    /\ UNCHANGED puzzle_vars
    /\ UNCHANGED <<steady_frame, frames, thread_vars, key_vars>>

NextCache == \E layer_count \in MIN_LAYER_COUNT..MAX_LAYER_COUNT : Lookup(layer_count)

SpecCache == Init /\ [][NextCache]_vars

----------------------------------------------------------------------------
(* Key combinations built and validated *)

MaxKeys == 2

\* the keys pressed: every modifier key, by scan code and by virtual key
\* code, and two keys that are no modifiers
KeyPool ==
    {Sc(code) : code \in {"ShiftLeft", "ShiftRight", "ControlLeft", "ControlRight",
                          "AltLeft", "AltRight", "MetaLeft", "MetaRight", "KeyA"}}
    \cup {Vk(code) : code \in {"LShift", "RShift", "LControl", "RControl",
                               "LAlt", "RAlt", "LWin", "RWin", "A"}}

\* the Vec<Key> values of up to MaxKeys keys
KeyLists == UNION {[1..n -> KeyPool] : n \in 0..MaxKeys}

\* the ModifiersState values
ModifiersStates == SUBSET {"CTRL", "SHIFT", "ALT", "LOGO"}

\* every KeyCombo value over the key lists, as deserialization can give
KeyComboInputs ==
    [keys : KeyLists, ctrl : BOOLEAN, shift : BOOLEAN, alt : BOOLEAN, logo : BOOLEAN]

InitKeys ==
    /\ InitController
    /\ InitPuzzleIdle
    /\ InitFrames
    /\ key_combo \in KeyComboInputs
    /\ key_last = "input"

\* KeyCombo::validate on the combination
Validate ==
    /\ key_combo' = validate(key_combo)
    /\ key_last' = "validate"
    /\ UNCHANGED ctrl_vars
    /\ UNCHANGED puzzle_vars
    /\ UNCHANGED <<steady_frame, frames, cache, thread_vars>>

\* KeyCombo::new on the keys of the combination and a ModifiersState
NewCombo(mods) ==
    /\ key_last = "input"
    /\ key_combo' = KeyCombo_new(key_combo.keys, mods)
    /\ key_last' = "new"
    /\ UNCHANGED ctrl_vars
    /\ UNCHANGED puzzle_vars
    /\ UNCHANGED <<steady_frame, frames, cache, thread_vars>>

NextKeys ==
    \/ Validate
    \/ \E mods \in ModifiersStates : NewCombo(mods)

SpecKeys == InitKeys /\ [][NextKeys]_vars

----------------------------------------------------------------------------
(* A Rubiks4D twisted by clicks on its stickers *)

\* the stickers of a puzzle
Stickers(self) == 0..(Len(puzzle_description(self.layer_count).stickers) - 1)

\* the twists a click with a button on a sticker asks for: the one of
\* sticker_geometry, made a twist of the puzzle's type, or none
clicked_twists(self, sticker, button) ==
    {Twist(Rubiks4D_ty(self.layer_count), made.axis, made.direction, made.layers) :
        made \in {option[1] : option \in {click_twists(self, sticker)[button]} \ {None}}}

\* a click on a sticker twists the puzzle, if the sticker has a twist for
\* the button
Click(sticker, button) ==
    \E t \in clicked_twists(puzzle, sticker, button) : ProbeTwist(t)

NextClicks ==
    \/ phase = "idle" /\ \E t \in ScrambleTwists(puzzle.layer_count) : Scramble(t)
    \/ phase = "idle" /\ \E sticker \in Stickers(puzzle) :
                            \E button \in {"twist_ccw", "twist_cw", "twist_recenter"} :
                                Click(sticker, button)

SpecClicks == InitPuzzle /\ [][NextClicks]_vars

----------------------------------------------------------------------------
(* puzzle_description called from several threads *)


\* a panic unwinds the thread out of puzzle_description; a guard it holds is
\* dropped during the unwinding, which poisons the mutex
Unwind(thread) ==
    /\ threads' = [threads EXCEPT ![thread].pc = "idle",
                                   ![thread].result = Panicked,
                                   ![thread].aborted = @ + 1]
    /\ mutex' = IF mutex.holder = Some(thread)
                THEN [mutex EXCEPT !.holder = None, !.poisoned = TRUE]
                ELSE mutex
    /\ UNCHANGED <<leaked_boxes, returned>>

\* what no step of a thread in puzzle_description touches
OnlyThreads ==
    /\ UNCHANGED ctrl_vars
    /\ UNCHANGED puzzle_vars
    /\ UNCHANGED <<steady_frame, frames, cache, key_vars>>

\* a thread calls puzzle_description(layer_count)
Call(thread, layer_count) ==
    /\ threads[thread].pc = "idle"
    /\ threads[thread].calls < MaxCalls
    /\ threads' = [threads EXCEPT ![thread].pc = next_pc("idle"),
                                   ![thread].layer_count = layer_count,
                                   ![thread].result = NoResult,
                                   ![thread].calls = @ + 1]
    /\ UNCHANGED <<mutex, leaked_boxes, returned>>
    /\ OnlyThreads

\* assert!(layer_count >= MIN_LAYER_COUNT); assert!(layer_count <= MAX_LAYER_COUNT)
AssertRange(thread) ==
    /\ threads[thread].pc = "assert"
    /\ IF /\ threads[thread].layer_count >= MIN_LAYER_COUNT
          /\ threads[thread].layer_count <= MAX_LAYER_COUNT
       THEN /\ threads' = [threads EXCEPT ![thread].pc = next_pc("assert")]
            /\ UNCHANGED <<mutex, leaked_boxes, returned>>
       ELSE Unwind(thread)
    /\ OnlyThreads

\* CACHE.lock().unwrap(): blocks while another thread holds the guard, and
\* panics on a poisoned mutex
LockCache(thread) ==
    /\ threads[thread].pc = "lock"
    /\ mutex.holder = None
    /\ IF mutex.poisoned
       THEN Unwind(thread)
       ELSE /\ mutex' = [mutex EXCEPT !.holder = Some(thread)]
            /\ threads' = [threads EXCEPT ![thread].pc = next_pc("lock")]
            /\ UNCHANGED <<leaked_boxes, returned>>
    /\ OnlyThreads

\* .entry(layer_count).or_insert_with(..), under the guard
Entry(thread) ==
    /\ threads[thread].pc = "entry"
    /\ LET entry == or_insert_with(mutex.map, leaked_boxes, threads[thread].layer_count)
       IN  /\ mutex' = [mutex EXCEPT !.map = entry.map]
           /\ leaked_boxes' = entry.leaked
           /\ threads' = [threads EXCEPT ![thread].pc = next_pc("entry"),
                                          ![thread].result = Reference(entry.reference)]
    /\ UNCHANGED returned
    /\ OnlyThreads

\* the guard is dropped at the end of the statement and the reference returned
Unlock(thread) ==
    /\ threads[thread].pc = "unlock"
    /\ mutex' = [mutex EXCEPT !.holder = None]
    /\ threads' = [threads EXCEPT ![thread].pc = next_pc("unlock")]
    /\ returned' = returned \cup {<<threads[thread].layer_count, threads[thread].result.reference>>}
    /\ UNCHANGED leaked_boxes
    /\ OnlyThreads

ThreadStep(thread) ==
    \/ \E layer_count \in LayerCountArguments : Call(thread, layer_count)
    \/ AssertRange(thread)
    \/ LockCache(thread)
    \/ Entry(thread)
    \/ Unlock(thread)

NextThreads == \E thread \in Threads : ThreadStep(thread)

SpecThreads == Init /\ [][NextThreads]_vars

----------------------------------------------------------------------------
(* Properties *)

\* the solved puzzle of the controller's type
Solved == Puzzle_new(ControllerTy)

\* C1: in every reachable controller state, applying the twists of
\* twist_queue, front first, to `displayed` yields exactly `latest`
C1_QueueTransformsDisplayedIntoLatest ==
    LET drained == drain(displayed, twist_queue)
    IN  drained.ok /\ drained.puzzle = latest

\* two twists are queued, one of them put there by undo, the animation is
\* under way and `displayed` lags behind `latest`
C1_Witness ==
    /\ Len(twist_queue) = 2
    /\ redo_buffer # <<>>
    /\ progress > 0
    /\ displayed # latest
    /\ displayed # Solved

\* C2: a twist followed by its reverse (same axis and layers, direction
\* XOR 1) returns the puzzle to the state it was in, for every twist of the
\* 8 axes, 32 directions and all layer masks
C2_TwistThenReverseIsIdentity ==
    phase = "reversed" => puzzle = before

\* a scrambled puzzle on which the probed twist moved pieces and was reversed
C2_Witness ==
    /\ phase = "reversed"
    /\ scrambles > 0
    /\ before # Rubiks4D_new(before.layer_count)
    /\ Rubiks4D_twist(before, probe[1]) # before
    /\ probe[1].direction = TwistDirectionEnum.DBR

\* C3: from every reachable state catch_up leaves the queue empty, progress
\* 0 and displayed = latest, and its assert_eq! does not fail
C3_CatchUpReachesLatest ==
    LET result == catch_up(Controller)
    IN  /\ result.ret = "Ok"
        /\ result.self.twist_queue = <<>>
        /\ result.self.progress = 0
        /\ result.self.displayed = result.self.latest
        /\ result.self.latest = latest
        /\ last.op = "catch_up" =>
              /\ last.ret = "Ok"
              /\ twist_queue = <<>>
              /\ progress = 0
              /\ displayed = latest

\* two twists are queued mid-animation, and catch_up moves `displayed`
C3_Witness ==
    /\ Len(twist_queue) = 2
    /\ progress > 0
    /\ redo_buffer # <<>>
    /\ catch_up(Controller).self.displayed # displayed

\* a valid orientation state: the four slots are on the four axes, each once
IsSignedPermutation(piece_state) ==
    /\ \A i \in 1..4 : piece_state[i] \in 0..7
    /\ {FaceEnum_axis(piece_state[i]) : i \in 1..4} = {Axis.X, Axis.Y, Axis.Z, Axis.W}

\* C4: in every puzzle state reached by twists, every piece's orientation
\* state is a signed permutation of the four axes
C4_OrientationIsSignedPermutation ==
    \A piece \in DOMAIN puzzle.piece_states :
        IsSignedPermutation(puzzle.piece_states[piece])

\* a scrambled puzzle twisted again, with a piece turned onto other axes and
\* a piece left as it was
C4_Witness ==
    /\ phase = "twisted"
    /\ scrambles > 0
    /\ \E piece \in DOMAIN puzzle.piece_states :
          /\ FaceEnum_axis(puzzle.piece_states[piece][1]) # Axis.X
          /\ FaceEnum_sign(puzzle.piece_states[piece][2]) = Sign.Neg
    /\ \E piece \in DOMAIN puzzle.piece_states :
          puzzle.piece_states[piece] = PieceState_default

\* `new_twist` is the reverse of the twist on top of the undo stack, the case
\* in which PuzzleController::twist hands over to undo
Merges(new_twist) == last_of(undo_buffer) = Some(Twist_rev(new_twist))

\* C5 as stated: for every twist t of the controller's type, undo right
\* after twist(t) restores `latest` to its value before twist(t), and redo
\* right after that undo restores it to its value after twist(t)
C5_UndoRedoAfterAnyTwist ==
    \A t \in MatchingTwists :
        LET twisted == twist(Controller, t)
            undone == undo(twisted.self)
            redone == redo(undone.self)
        IN  twisted.ret = "Ok" =>
               /\ undone.self.latest = latest
               /\ redone.self.latest = twisted.self.latest

\* C5 amended: for every twist t of the controller's type that is not the
\* reverse of the top of the undo stack, undo right after twist(t) succeeds
\* and restores `latest`, and redo right after that undo succeeds and
\* restores the value `latest` had after twist(t)
C5_UndoRedoAfterRecordedTwist ==
    \A t \in MatchingTwists :
        LET twisted == twist(Controller, t)
            undone == undo(twisted.self)
            redone == redo(undone.self)
        IN  ~Merges(t) =>
               /\ twisted.ret = "Ok"
               /\ undone.ret = "Ok"
               /\ undone.self.latest = latest
               /\ redone.ret = "Ok"
               /\ redone.self.latest = twisted.self.latest

\* a controller with history on both stacks and a twist that is recorded,
\* moves `latest` and is undone
C5_Witness ==
    /\ undo_buffer # <<>>
    /\ redo_buffer # <<>>
    /\ \E t \in MatchingTwists :
          /\ ~Merges(t)
          /\ twist(Controller, t).self.latest # latest
          /\ undo(twist(Controller, t).self).self.latest = latest

\* C6 as stated: twist(t) then twist(reverse(t)) leaves `latest`, the undo
\* stack, the redo stack and the drained `displayed` as if neither was called
C6_TwistThenReverseChangesNothing ==
    \A t \in MatchingTwists :
        LET first == twist(Controller, t)
            second == twist(first.self, Twist_rev(t))
        IN  /\ second.self.latest = latest
            /\ second.self.undo_buffer = undo_buffer
            /\ second.self.redo_buffer = redo_buffer
            /\ drain(second.self.displayed, second.self.twist_queue).puzzle
                  = drain(displayed, twist_queue).puzzle

\* C6 amended: twist(t) then twist(reverse(t)) both succeed and leave
\* `latest`, the undo stack and the drained `displayed` as if neither was
\* called; the redo stack is not kept: it ends holding t alone, or nothing
\* when t was itself the reverse of the top of the undo stack
C6_TwistThenReverseKeepsLatestAndUndo ==
    \A t \in MatchingTwists :
        LET first == twist(Controller, t)
            second == twist(first.self, Twist_rev(t))
        IN  /\ first.ret = "Ok"
            /\ second.ret = "Ok"
            /\ second.self.latest = latest
            /\ second.self.undo_buffer = undo_buffer
            /\ drain(second.self.displayed, second.self.twist_queue).puzzle
                  = drain(displayed, twist_queue).puzzle
            /\ second.self.redo_buffer = IF Merges(t) THEN <<>> ELSE <<t>>

\* a controller with a twist on each stack and one in the queue, and a twist
\* that merges with the undo stack as well as one that does not
C6_Witness ==
    /\ undo_buffer # <<>>
    /\ redo_buffer # <<>>
    /\ twist_queue # <<>>
    /\ \E t \in MatchingTwists : Merges(t)
    /\ \E t \in MatchingTwists :
          /\ ~Merges(t)
          /\ twist(Controller, t).self.latest # latest
          /\ twist(twist(Controller, t).self, Twist_rev(t)).self.latest = latest

\* C7: twist(new_twist) with new_twist the reverse of the top of the undo
\* stack leaves the controller in the state undo() leaves it in
C7_MergingTwistIsUndo ==
    \A t \in MatchingTwists :
        Merges(t) => twist(Controller, t) = undo(Controller)

\* a merging twist on a controller whose redo stack is not empty: the two
\* results differ in the redo stack and in nothing else
C7_Witness ==
    /\ redo_buffer # <<>>
    /\ \E t \in MatchingTwists :
          /\ Merges(t)
          /\ twist(Controller, t).self.redo_buffer = <<Twist_rev(t)>>
          /\ undo(Controller).self.redo_buffer = Append(redo_buffer, Twist_rev(t))
          /\ [twist(Controller, t).self EXCEPT !.redo_buffer = <<>>]
                = [undo(Controller).self EXCEPT !.redo_buffer = <<>>]

\* C8: a successful twist(t) with t not the reverse of the top of the undo
\* stack applies t to `latest`, appends t to the queue and to the undo
\* stack, empties the redo stack (an immediate redo fails) and sets
\* is_unsaved
C8_RecordedTwistEffects ==
    \A t \in MatchingTwists :
        LET twisted == twist(Controller, t)
        IN  (~Merges(t) /\ twisted.ret = "Ok") =>
               /\ twisted.self.latest = Puzzle_twist(latest, t).puzzle
               /\ twisted.self.twist_queue = Append(twist_queue, t)
               /\ twisted.self.undo_buffer = Append(undo_buffer, t)
               /\ twisted.self.redo_buffer = <<>>
               /\ redo(twisted.self).ret = "Err"
               /\ twisted.self.is_unsaved

\* a controller with a twist waiting on the redo stack and one in the queue,
\* on which a recorded twist succeeds and moves `latest`
C8_Witness ==
    /\ redo_buffer # <<>>
    /\ twist_queue # <<>>
    /\ \E t \in MatchingTwists :
          /\ ~Merges(t)
          /\ twist(Controller, t).ret = "Ok"
          /\ twist(Controller, t).self.latest # latest

\* C9, undo: with a non-empty undo stack undo pops the top u, applies
\* reverse(u) to `latest`, appends reverse(u) to the queue and pushes u on
\* the redo stack; a redo right after restores latest and both stacks
UndoThenRedo ==
    undo_buffer # <<>> =>
        LET u == undo_buffer[Len(undo_buffer)]
            undone == undo(Controller)
            redone == redo(undone.self)
        IN  /\ undone.ret = "Ok"
            /\ undone.self.undo_buffer = pop_of(undo_buffer)
            /\ undone.self.latest = Puzzle_twist(latest, Twist_rev(u)).puzzle
            /\ undone.self.twist_queue = Append(twist_queue, Twist_rev(u))
            /\ undone.self.redo_buffer = Append(redo_buffer, u)
            /\ redone.ret = "Ok"
            /\ redone.self.latest = latest
            /\ redone.self.undo_buffer = undo_buffer
            /\ redone.self.redo_buffer = redo_buffer

\* C9, redo: with a non-empty redo stack redo pops the top r, applies r to
\* `latest`, appends r to the queue and pushes r on the undo stack; an undo
\* right after restores latest and both stacks
RedoThenUndo ==
    redo_buffer # <<>> =>
        LET r == redo_buffer[Len(redo_buffer)]
            redone == redo(Controller)
            undone == undo(redone.self)
        IN  /\ redone.ret = "Ok"
            /\ redone.self.redo_buffer = pop_of(redo_buffer)
            /\ redone.self.latest = Puzzle_twist(latest, r).puzzle
            /\ redone.self.twist_queue = Append(twist_queue, r)
            /\ redone.self.undo_buffer = Append(undo_buffer, r)
            /\ undone.ret = "Ok"
            /\ undone.self.latest = latest
            /\ undone.self.undo_buffer = undo_buffer
            /\ undone.self.redo_buffer = redo_buffer

\* C9: undo and redo pop, apply, enqueue and push as described, and undo
\* then redo, and redo then undo, each restore latest and both stacks
C9_UndoRedoMechanics == UndoThenRedo /\ RedoThenUndo

\* both stacks hold a twist, a twist is in the queue, and undo and redo
\* each move `latest`
C9_Witness ==
    /\ undo_buffer # <<>>
    /\ redo_buffer # <<>>
    /\ twist_queue # <<>>
    /\ undo(Controller).self.latest # latest
    /\ redo(Controller).self.latest # latest

\* C10: twist(t) returns an error exactly when t's puzzle type differs from
\* the controller's, and then changes no field of the controller; a twist
\* of the matching type never fails
C10_TwistFailsOnlyOnTypeMismatch ==
    /\ \A t \in TwistInputs :
          LET twisted == twist(Controller, t)
          IN  /\ twisted.ret = "Err" <=> t.ty # PuzzleController_ty(Controller)
              /\ twisted.ret = "Err" => twisted.self = Controller
              /\ t.ty = PuzzleController_ty(Controller) => twisted.ret = "Ok"
    /\ \A t \in MatchingTwists : twist(Controller, t).ret = "Ok"

\* a twist of another puzzle type has just been refused by a controller that
\* is saved-dirty, mid-animation and has history on both stacks
C10_Witness ==
    /\ last = [op |-> "twist", ret |-> "Err"]
    /\ is_unsaved
    /\ progress > 0
    /\ twist_queue # <<>>
    /\ undo_buffer # <<>>
    /\ redo_buffer # <<>>

\* C11: undo on an empty undo stack, and redo on an empty redo stack, return
\* an error and change no field of the controller
C11_EmptyHistoryChangesNothing ==
    /\ undo_buffer = <<>> => undo(Controller) = [self |-> Controller, ret |-> "Err"]
    /\ redo_buffer = <<>> => redo(Controller) = [self |-> Controller, ret |-> "Err"]
    /\ (last.op \in {"undo", "redo"} /\ last.ret = "Err") =>
          (undo_buffer = <<>> \/ redo_buffer = <<>>)

\* undo has just been refused on an empty undo stack while a twist is still
\* queued for animation and another waits on the redo stack
C11_Witness ==
    /\ last = [op |-> "undo", ret |-> "Err"]
    /\ undo_buffer = <<>>
    /\ redo_buffer # <<>>
    /\ twist_queue # <<>>
    /\ redo(Controller).ret = "Ok"

\* nothing is left to animate
Drained == twist_queue = <<>> /\ displayed = latest

\* once the frame has settled, a step changes `displayed` and the queue only
\* by moving the front twist of the queue onto `displayed`, and leaves
\* `latest` alone
AnimationStep ==
    steady_frame # None =>
        /\ latest' = latest
        /\ \/ twist_queue' = twist_queue /\ displayed' = displayed
           \/ /\ twist_queue # <<>>
              /\ twist_queue' = Tail(twist_queue)
              /\ displayed' = Puzzle_twist(displayed, Head(twist_queue)).puzzle

\* advance with this frame raises a progress below 1.0, whatever the queue
MovesProgress(frame) ==
    \A queue_len \in 1..MaxQueue : twist_delta(queue_len, frame.delta, frame.prefs) # 0

\* C12 as stated: advance called again and again with a positive time delta,
\* and nothing else, applies the queued twists to `displayed` in queue order
\* and eventually leaves the queue empty with displayed = latest
C12_PositiveDeltaDrainsQueue ==
    /\ [][AnimationStep]_vars
    /\ (steady_frame # None /\ steady_frame[1].delta > 0) ~> Drained

\* C12, for frames that move progress: advance called again and again with
\* a positive time delta for which delta / twist_duration is not zero, and
\* nothing else, applies the queued twists to `displayed` in queue order and
\* eventually leaves the queue empty with displayed = latest
C12_MovingFramesDrainQueue ==
    /\ [][AnimationStep]_vars
    /\ (steady_frame # None /\ MovesProgress(steady_frame[1])) ~> Drained

\* an animation at three tenths of a twist per frame has run to its end
\* after the commands stopped: the last advance finalized a twist, nothing
\* is queued and `displayed` shows both recorded twists
C12_Witness ==
    /\ steady_frame = Some(Frame(120, Finite(400), FALSE))
    /\ MovesProgress(steady_frame[1])
    /\ last = [op |-> "advance", ret |-> "true"]
    /\ progress = 0
    /\ Drained
    /\ Len(undo_buffer) = MaxHistory
    /\ displayed # Solved

\* what advance must give when it finalizes the front twist of the queue
Finalized(self) ==
    [self |-> [self EXCEPT !.displayed = Puzzle_twist(self.displayed,
                                                      Head(self.twist_queue)).puzzle,
                           !.twist_queue = Tail(self.twist_queue),
                           !.progress = 0],
     ret |-> "true"]

\* C13: with a non-empty queue and progress >= 1.0, advance removes exactly
\* the front twist, applies it to displayed, sets progress to 0 and returns
\* true, whatever the frame; no call of advance removes more than one twist
C13_AdvanceFinalizesFrontTwist ==
    \A frame \in FrameInputs :
        /\ (twist_queue # <<>> /\ progress >= F32_ONE) =>
              advance(Controller, frame.delta, frame.prefs) = Finalized(Controller)
        /\ Len(advance(Controller, frame.delta, frame.prefs).self.twist_queue)
              >= Len(twist_queue) - 1

\* a full queue whose front twist has finished animating, and which advance
\* shortens by that one twist
C13_Witness ==
    /\ last = [op |-> "advance", ret |-> "true"]
    /\ Len(twist_queue) = MaxQueue
    /\ progress >= F32_ONE
    /\ displayed # latest
    /\ \E frame \in FrameInputs :
          /\ frame.delta > 0
          /\ advance(Controller, frame.delta, frame.prefs).self.twist_queue
                = Tail(twist_queue)
          /\ advance(Controller, frame.delta, frame.prefs).self.displayed # displayed

\* C14: advance returns true exactly when the queue is non-empty; on an
\* empty queue it returns false and leaves displayed, latest, progress, the
\* queue and both stacks as they were
C14_AdvanceRepaintsIffQueued ==
    \A frame \in FrameInputs :
        LET result == advance(Controller, frame.delta, frame.prefs)
        IN  /\ (result.ret = "true") <=> (twist_queue # <<>>)
            /\ twist_queue = <<>> =>
                  /\ result.ret = "false"
                  /\ result.self.displayed = displayed
                  /\ result.self.latest = latest
                  /\ result.self.progress = progress
                  /\ result.self.twist_queue = twist_queue
                  /\ result.self.undo_buffer = undo_buffer
                  /\ result.self.redo_buffer = redo_buffer

\* advance has just declined to repaint: nothing is queued, with twists on
\* both stacks and a puzzle that is no longer solved
C14_Witness ==
    /\ last = [op |-> "advance", ret |-> "false"]
    /\ twist_queue = <<>>
    /\ undo_buffer # <<>>
    /\ redo_buffer # <<>>
    /\ displayed = latest
    /\ displayed # Solved

\* C15: progress stays within 0.0..=1.0 in every reachable state and after
\* advance with any frame, the quotient delta / twist_duration being zero,
\* negative, infinite or NaN included
C15_ProgressWithinUnitInterval ==
    /\ 0 <= progress
    /\ progress <= F32_ONE
    /\ \A frame \in FrameInputs :
          /\ 0 <= advance(Controller, frame.delta, frame.prefs).self.progress
          /\ advance(Controller, frame.delta, frame.prefs).self.progress <= F32_ONE

\* an animation under way, where a twist delta inside 0.0..MIN_TWIST_DELTA
\* would carry progress beyond 1.0 and advance caps it
C15_Witness ==
    /\ last = [op |-> "advance", ret |-> "true"]
    /\ 0 < progress
    /\ progress < F32_ONE
    /\ twist_queue # <<>>
    /\ \E frame \in FrameInputs :
          /\ in_min_twist_range(computed_twist_delta(Len(twist_queue), frame.delta,
                                                     frame.prefs))
          /\ progress + twist_delta(Len(twist_queue), frame.delta, frame.prefs) > F32_ONE
          /\ advance(Controller, frame.delta, frame.prefs).self.progress = F32_ONE

\* C16: with a non-empty queue and progress < 1.0, a computed twist delta
\* outside 0.0..MIN_TWIST_DELTA (at least 1/3, negative, infinite or NaN)
\* makes progress exactly 1.0 in that call, leaving the queue and displayed
\* alone, and the next advance, whatever its frame, finalizes the front twist
C16_OutOfRangeDeltaCompletesTwist ==
    \A frame \in FrameInputs :
        (/\ twist_queue # <<>>
         /\ progress < F32_ONE
         /\ ~in_min_twist_range(computed_twist_delta(Len(twist_queue), frame.delta,
                                                     frame.prefs))) =>
            LET result == advance(Controller, frame.delta, frame.prefs)
                expected == Finalized([Controller EXCEPT !.progress = F32_ONE,
                                                         !.queue_max = result.self.queue_max])
            IN  /\ result.ret = "true"
                /\ result.self.progress = F32_ONE
                /\ result.self.twist_queue = twist_queue
                /\ result.self.displayed = displayed
                /\ \A next \in FrameInputs :
                      advance(result.self, next.delta, next.prefs) = expected

\* the four kinds of out-of-range twist delta
OutOfRangeKinds(queue_len) ==
    {IF computed.kind # "finite" THEN computed.kind
     ELSE IF computed.units < 0 THEN "negative" ELSE "large" :
        computed \in {computed_twist_delta(queue_len, frame.delta, frame.prefs) :
                         frame \in FrameInputs} \ {c \in {computed_twist_delta(queue_len, frame.delta, frame.prefs) : frame \in FrameInputs} : in_min_twist_range(c)}}

\* an animation part-way through a twist, in a state where the frames give
\* a NaN, an infinite, a negative and a too large twist delta
C16_Witness ==
    /\ last = [op |-> "advance", ret |-> "true"]
    /\ 0 < progress
    /\ progress < F32_ONE
    /\ Len(twist_queue) = MaxQueue
    /\ OutOfRangeKinds(Len(twist_queue)) = {"NaN", "inf", "negative", "large"}
    /\ \E frame \in FrameInputs :
          /\ frame.prefs.twist_duration = Finite(0)
          /\ advance(Controller, frame.delta, frame.prefs).self.progress = F32_ONE

\* n^4 - max(n - 2, 0)^4
SurfaceCount(n) == n ^ 4 - (IF n - 2 > 0 THEN (n - 2) ^ 4 ELSE 0)

\* C19: for every layer count n in 1..9 the description puzzle_description
\* builds has exactly n^4 - max(n-2,0)^4 pieces (1, 16 and 80 for n = 1, 2
\* and 3), and as many piece_locations as pieces
C19_PieceCount ==
    /\ DOMAIN cache \subseteq MIN_LAYER_COUNT..MAX_LAYER_COUNT
    /\ \A n \in DOMAIN cache :
          /\ cache[n].layer_count = n
          /\ Len(cache[n].pieces) = SurfaceCount(n)
          /\ Len(cache[n].piece_locations) = Len(cache[n].pieces)
          /\ n = 1 => Len(cache[n].pieces) = 1
          /\ n = 2 => Len(cache[n].pieces) = 16
          /\ n = 3 => Len(cache[n].pieces) = 80
          /\ n <= MaxLayerCount =>
                /\ cache[n] = puzzle_description(n)
                /\ pieces_len(n) = SurfaceCount(n)

\* the descriptions of the smallest puzzle with inner points and of the
\* largest puzzle have been built
C19_Witness ==
    /\ {DEFAULT_LAYER_COUNT, MAX_LAYER_COUNT} \subseteq DOMAIN cache
    /\ Len(cache[DEFAULT_LAYER_COUNT].pieces) = 80
    /\ Len(cache[MAX_LAYER_COUNT].pieces) = 4160

\* the lattice [0, n)^4
Lattice(n) == (0..(n - 1)) \X (0..(n - 1)) \X (0..(n - 1)) \X (0..(n - 1))

\* a point with a coordinate equal to 0 or n - 1
OnSurface(point, n) == \E k \in 1..4 : point[k] = 0 \/ point[k] = n - 1

\* C20: for every valid layer count n, piece_locations holds every point of
\* [0, n)^4 with a coordinate equal to 0 or n - 1 exactly once, and no point
\* whose coordinates all lie strictly between 0 and n - 1
C20_LocationsAreTheSurface ==
    \A n \in DOMAIN cache :
        LET locations == cache[n].piece_locations
            visited == {locations[i] : i \in 1..Len(locations)}
        IN  /\ visited = {point \in Lattice(n) : OnSurface(point, n)}
            /\ Cardinality(visited) = Len(locations)
            /\ \A i \in 1..Len(locations) :
                  ~(\A k \in 1..4 : 0 < locations[i][k] /\ locations[i][k] < n - 1)

\* descriptions built for a puzzle without inner points, for one with a
\* single inner point and for one with more
C20_Witness ==
    /\ DOMAIN cache = {2, 3, 5}
    /\ <<1, 1, 1, 1>> \notin {cache[3].piece_locations[i] : i \in 1..80}
    /\ <<1, 2, 3, 0>> \in {cache[5].piece_locations[i] :
                              i \in 1..Len(cache[5].piece_locations)}

\* the twist before undo_buffer[i], None for the bottom of the stack
Predecessor(i) == IF i = 1 THEN None ELSE Some(undo_buffer[i - 1])

\* C17: twist_count(metric) is the number of positions of the undo stack
\* whose twist cannot be combined, under the metric, with its predecessor,
\* the bottom twist having none; so it lies between 0 and the length of the
\* undo stack, and it depends on no field but the undo stack
C17_TwistCountCountsUncombined ==
    \A metric \in TwistMetric :
        /\ twist_count(Controller, metric)
              = Cardinality({i \in 1..Len(undo_buffer) :
                                ~can_combine(undo_buffer[i], Predecessor(i), metric)})
        /\ 0 <= twist_count(Controller, metric)
        /\ twist_count(Controller, metric) <= Len(undo_buffer)
        /\ twist_count(Controller, metric)
              = twist_count([PuzzleController_new(ControllerTy) EXCEPT
                                !.undo_buffer = undo_buffer], metric)

\* the same twist has been recorded twice: two moves for the metric that
\* merges nothing, one for the others, while the queue, the redo stack and
\* the animation are in different states than in a fresh controller
C17_Witness ==
    /\ Len(undo_buffer) = 2
    /\ undo_buffer[1] = undo_buffer[2]
    /\ twist_count(Controller, "Separate") = 2
    /\ twist_count(Controller, "Repetition") = 1
    /\ twist_count(Controller, "Axis") = 1
    /\ twist_queue # <<>>
    /\ progress > 0

\* a twist of a single layer by 90 degrees
SingleLayerQuarterTurn(t) ==
    /\ t.direction \in {TwistDirectionEnum.R, TwistDirectionEnum.L, TwistDirectionEnum.U,
                        TwistDirectionEnum.D, TwistDirectionEnum.F, TwistDirectionEnum.B}
    /\ \E layer \in 0..(t.ty.layer_count - 1) : t.layers = 2 ^ layer

\* a fresh controller of the twist's puzzle type after twist(t)
FreshThenTwist(t) == twist(PuzzleController_new(t.ty), t)

\* C18: on a fresh 3-layer controller, a single-layer 90-degree twist t
\* followed by twist(reverse(t)) leaves the undo stack empty, and twist_count
\* is 0 under every metric
C18_TwistThenReverseCountsZero ==
    (/\ phase = "twisted"
     /\ puzzle.layer_count = DEFAULT_LAYER_COUNT
     /\ SingleLayerQuarterTurn(probe[1])) =>
        LET reversed == twist(FreshThenTwist(probe[1]).self, Twist_rev(probe[1]))
        IN  /\ reversed.ret = "Ok"
            /\ reversed.self.undo_buffer = <<>>
            /\ \A metric \in TwistMetric : twist_count(reversed.self, metric) = 0

\* a 90-degree twist of the middle layer of a 3-layer puzzle, which a fresh
\* controller records and counts as one move before its reverse arrives
C18_Witness ==
    /\ phase = "twisted"
    /\ puzzle.layer_count = DEFAULT_LAYER_COUNT
    /\ SingleLayerQuarterTurn(probe[1])
    /\ probe[1].layers = 2
    /\ FreshThenTwist(probe[1]).ret = "Ok"
    /\ FreshThenTwist(probe[1]).self.undo_buffer = <<probe[1]>>
    /\ \A metric \in TwistMetric : twist_count(FreshThenTwist(probe[1]).self, metric) = 1
    /\ twist(FreshThenTwist(probe[1]).self, Twist_rev(probe[1])).self.undo_buffer = <<>>

\* the faces a piece at `location` of an n-layer puzzle touches: the
\* positive face of an axis whose coordinate is n - 1, the negative face of
\* an axis whose coordinate is 0
TouchedFaces(location, n) ==
    {face \in 0..7 :
        location[FaceEnum_axis(face) + 1]
            = (IF FaceEnum_sign(face) = Sign.Pos THEN n - 1 ELSE 0)}

\* C21: in every description, a piece has exactly one sticker for each face
\* its initial location touches, coloured with that face, and so at least
\* one sticker; StickerInfo.piece of sticker s is p exactly when s is listed
\* in PieceInfo.stickers of p
C21_StickersMatchLocation ==
    \A n \in DOMAIN cache :
        LET desc == cache[n]
        IN  /\ \A p \in 1..Len(desc.pieces) :
                  LET listed == desc.pieces[p].stickers
                      colors == [k \in 1..Len(listed) |-> desc.stickers[listed[k] + 1].color]
                  IN  /\ Len(listed) >= 1
                      /\ \A k \in 1..Len(listed) :
                            /\ listed[k] \in 0..(Len(desc.stickers) - 1)
                            /\ desc.stickers[listed[k] + 1].piece = p - 1
                      /\ {colors[k] : k \in 1..Len(colors)}
                            = TouchedFaces(desc.piece_locations[p], n)
                      /\ Cardinality(TouchedFaces(desc.piece_locations[p], n))
                            = Len(listed)
            /\ \A s \in 1..Len(desc.stickers) :
                  /\ desc.stickers[s].piece \in 0..(Len(desc.pieces) - 1)
                  /\ \E k \in 1..Len(desc.pieces[desc.stickers[s].piece + 1].stickers) :
                        desc.pieces[desc.stickers[s].piece + 1].stickers[k] = s - 1

\* the descriptions of the 1-layer puzzle, whose only piece carries all
\* eight stickers, and of the 3-layer puzzle, whose piece at <<1, 1, 1, 0>>
\* carries the single sticker I and whose last piece carries R, U, F and O
C21_Witness ==
    /\ {1, 3} \subseteq DOMAIN cache
    /\ Len(cache[1].pieces[1].stickers) = 8
    /\ Len(cache[3].stickers) = 8 * 27
    /\ \E p \in 1..80 :
          /\ cache[3].piece_locations[p] = <<1, 1, 1, 0>>
          /\ Len(cache[3].pieces[p].stickers) = 1
          /\ cache[3].stickers[cache[3].pieces[p].stickers[1] + 1]
                = [piece |-> p - 1, color |-> FaceEnum.I]
    /\ cache[3].piece_locations[80] = <<2, 2, 2, 2>>
    /\ Len(cache[3].pieces[80].stickers) = 4

\* the label on `axis` with the given sign
LabelOn(axis, sign) == 2 * axis + (IF sign = Sign.Pos THEN 0 ELSE 1)

\* the quarter turn from `from` to `to` stated slot by slot: a label on
\* `from` becomes the label on `to` with the same sign, a label on `to`
\* becomes the label on `from` with the opposite sign, others stay
QuarterTurn(piece_state, from, to) ==
    [i \in 1..4 |->
        CASE FaceEnum_axis(piece_state[i]) = from ->
                LabelOn(to, FaceEnum_sign(piece_state[i]))
          [] FaceEnum_axis(piece_state[i]) = to ->
                LabelOn(from, -FaceEnum_sign(piece_state[i]))
          [] OTHER -> piece_state[i]]

\* every valid orientation state
SignedPermutations ==
    {piece_state \in (0..7) \X (0..7) \X (0..7) \X (0..7) :
        IsSignedPermutation(piece_state)}

\* the orientation states of the pieces of `puzzle`; in the untouched solved
\* puzzle, every valid orientation state
OrientationInputs ==
    IF phase = "idle" /\ scrambles = 0
    THEN SignedPermutations
    ELSE {puzzle.piece_states[piece] : piece \in DOMAIN puzzle.piece_states}

\* C22: for every pair of distinct axes and every valid orientation state,
\* rotate(from, to) with its XOR of (from ^ to) << 1 followed by mirror(from)
\* is the quarter turn stated slot by slot
C22_RotateIsQuarterTurn ==
    \A piece_state \in OrientationInputs :
        \A from \in 0..3, to \in 0..3 :
            from # to => rotate(piece_state, from, to) = QuarterTurn(piece_state, from, to)

\* a twisted puzzle holds a piece turned away from the default orientation,
\* which rotate(X, W) changes in exactly its slots on X and on W
C22_Witness ==
    /\ phase = "twisted"
    /\ \E piece_state \in OrientationInputs :
          /\ piece_state # PieceState_default
          /\ FaceEnum_axis(piece_state[1]) = Axis.W
          /\ FaceEnum_axis(piece_state[4]) = Axis.X
          /\ rotate(piece_state, Axis.X, Axis.W)
                = <<LabelOn(Axis.X, -FaceEnum_sign(piece_state[1])), piece_state[2],
                    piece_state[3], LabelOn(Axis.W, FaceEnum_sign(piece_state[4]))>>

RECURSIVE TwistTimes(_, _, _, _)
\* PieceState::twist(face, direction) applied `times` times
TwistTimes(piece_state, face, direction, times) ==
    IF times = 0 THEN piece_state
    ELSE TwistTimes(PieceState_twist(piece_state, face, direction), face, direction,
                    times - 1)

\* the faces and directions a state is twisted with: all of them in the
\* untouched solved puzzle, afterwards those of the twist in `probe`
PeriodInputs ==
    IF phase = "idle" /\ scrambles = 0
    THEN (0..7) \X (0..(TwistDirectionEnum_COUNT - 1))
    ELSE IF probe = None THEN {}
    ELSE {<<probe[1].axis, probe[1].direction>>}

\* C23: twist(face, d) applied period(d) times returns the orientation state
\* it started from: 4 times for the 90-degree directions, 3 for the corner
\* directions, 2 for the 180-degree face and edge directions; rotate(from,
\* to) applied 4 times does so too
C23_TwistHasItsPeriod ==
    \A piece_state \in OrientationInputs :
        /\ \A input \in PeriodInputs :
              TwistTimes(piece_state, input[1], input[2], period(input[2])) = piece_state
        /\ \A from \in 0..3, to \in 0..3 :
              from # to =>
                 rotate(rotate(rotate(rotate(piece_state, from, to), from, to),
                               from, to), from, to) = piece_state

\* a corner twist has turned a piece, which comes back after two more and
\* not before
C23_Witness ==
    /\ phase = "twisted"
    /\ period(probe[1].direction) = 3
    /\ \E piece_state \in OrientationInputs :
          /\ PieceState_twist(piece_state, probe[1].axis, probe[1].direction) # piece_state
          /\ TwistTimes(piece_state, probe[1].axis, probe[1].direction, 2) # piece_state
          /\ TwistTimes(piece_state, probe[1].axis, probe[1].direction, 3) = piece_state

\* the operands of the u8 subtractions `self.layer_count() - 1 - ret[r]` that
\* piece_location makes for a piece: one per axis whose label is negative
MirroredCoordinates(self, piece) ==
    {puzzle_description(self.layer_count).piece_locations[piece + 1][i] :
        i \in {i \in 1..4 : FaceEnum_sign(self.piece_states[piece][i]) = Sign.Neg}}

\* C24: in every reachable puzzle state, every piece has a layer number in
\* [0, layer_count) along each of the 8 twist axes and a location whose
\* coordinates are all in [0, layer_count), and no subtraction of
\* piece_location goes below zero
C24_LayersAndLocationsInRange ==
    \A piece \in DOMAIN puzzle.piece_states :
        /\ \A twist_axis \in 0..7 :
              layer_from_twist_axis(puzzle, twist_axis, piece) \in 0..(puzzle.layer_count - 1)
        /\ LET location == piece_location(puzzle, piece)
           IN  \A i \in 1..4 : location[i] \in 0..(puzzle.layer_count - 1)
        /\ \A coordinate \in MirroredCoordinates(puzzle, piece) :
              puzzle.layer_count - 1 - coordinate >= 0

\* a twisted 3-layer puzzle has a piece with a negative label whose location
\* has moved from where it started
C24_Witness ==
    /\ phase = "twisted"
    /\ puzzle.layer_count = 3
    /\ \E piece \in DOMAIN puzzle.piece_states :
          /\ MirroredCoordinates(puzzle, piece) # {}
          /\ piece_location(puzzle, piece) #
                puzzle_description(puzzle.layer_count).piece_locations[piece + 1]

\* the pieces of `before` whose layer along the axis of the twist in `probe`
\* is in its layer mask
InMaskBefore ==
    {piece \in DOMAIN before.piece_states :
        is_piece_affected_by_twist(before, probe[1], piece)}

\* C25: Rubiks4D::twist(t) applies the direction of t to exactly the pieces
\* whose layer number along the axis of t, taken in the state before the
\* twist, is in the layer mask of t, and leaves every other piece as it was
C25_TwistActsOnMaskedLayers ==
    phase = "twisted" =>
        /\ DOMAIN puzzle.piece_states = DOMAIN before.piece_states
        /\ puzzle.layer_count = before.layer_count
        /\ \A piece \in DOMAIN before.piece_states :
              puzzle.piece_states[piece] =
                 IF LayerMask_index(probe[1].layers,
                                    layer_from_twist_axis(before, probe[1].axis, piece))
                 THEN PieceState_twist(before.piece_states[piece], probe[1].axis,
                                       probe[1].direction)
                 ELSE before.piece_states[piece]

\* a twist of a scrambled 3-layer puzzle has turned some pieces and left
\* others, and a piece it left is now in a layer of the mask
C25_Witness ==
    /\ phase = "twisted"
    /\ scrambles > 0
    /\ puzzle.layer_count = 3
    /\ \E piece \in InMaskBefore : puzzle.piece_states[piece] # before.piece_states[piece]
    /\ \E piece \in DOMAIN before.piece_states : piece \notin InMaskBefore
    /\ probe[1].layers \notin {LayerMask_default, all_layers(3)}

\* C26: make_recenter_twist fails for the faces O and I and succeeds for R,
\* L, U, D, F and B with a twist whose mask covers all layers;
\* do_recenter_command on O or I returns the error and leaves the state of
\* the controller as it was
C26_RecenterFailsOnNearAndFar ==
    [][\A face \in 0..7 :
          DoRecenter(face) =>
             LET made == make_recenter_twist(ControllerLayerCount, face)
             IN  /\ made.ok <=> face \notin {FaceEnum.O, FaceEnum.I}
                 /\ made.ok => made.twist.layers = all_layers(ControllerLayerCount)
                 /\ face \in {FaceEnum.O, FaceEnum.I} =>
                       /\ last'.ret = "Err"
                       /\ UNCHANGED <<displayed, latest, twist_queue, queue_max,
                                      progress, is_unsaved, undo_buffer, redo_buffer>>
                 /\ (made.ok /\ last'.ret = "Ok") =>
                       /\ latest' # latest
                       /\ \/ twist_queue'[Len(twist_queue')].layers =
                                all_layers(ControllerLayerCount)
                          \/ Len(undo_buffer') < Len(undo_buffer)]_vars

\* a recentering command has failed on a controller that has history, queued
\* twists and a redo entry, all of which it kept
C26_Witness ==
    /\ last = [op |-> "recenter", ret |-> "Err"]
    /\ undo_buffer # <<>>
    /\ twist_queue # <<>>
    /\ redo_buffer # <<>>

\* the addresses of the leaked descriptions built for a layer count
BuiltFor(layer_count) ==
    {address \in DOMAIN leaked_boxes : leaked_boxes[address].layer_count = layer_count}

\* C27: however the calls of several threads interleave, at most one
\* description is built and inserted for a layer count, every caller for
\* the same layer count gets the same reference, and an entry once inserted
\* is never replaced, mutated or removed
C27_OneDescriptionPerLayerCount ==
    /\ [](\A layer_count \in LayerCountArguments :
             Cardinality(BuiltFor(layer_count)) <= 1)
    /\ [](\A first \in returned, second \in returned :
             first[1] = second[1] => first[2] = second[2])
    /\ [](\A reference \in returned :
             /\ reference[2] \in DOMAIN leaked_boxes
             /\ leaked_boxes[reference[2]].layer_count = reference[1])
    /\ [][\A layer_count \in DOMAIN mutex.map :
             /\ layer_count \in DOMAIN mutex'.map
             /\ mutex'.map[layer_count] = mutex.map[layer_count]
             /\ leaked_boxes'[mutex.map[layer_count]] =
                   leaked_boxes[mutex.map[layer_count]]]_vars

\* both threads have been handed the reference for the same layer count,
\* one of them while the other was waiting for the lock, and the cache holds
\* a second entry
C27_Witness ==
    /\ \E layer_count \in LayerCountArguments :
          /\ Cardinality(BuiltFor(layer_count)) = 1
          /\ threads[1].pc = "unlock" /\ threads[1].layer_count = layer_count
          /\ threads[2].pc = "lock" /\ threads[2].layer_count = layer_count
          /\ <<layer_count, threads[1].result.reference>> \in returned
    /\ Len(leaked_boxes) = 2
    /\ threads[2].calls = MaxCalls

\* C28: a call with a layer count below 1 or above 9 panics before the lock
\* of the cache is taken: the cache is as it was, the mutex is not poisoned,
\* and the calls with a layer count in range, from any thread, do not panic
C28_OutOfRangeAbortsBeforeLock ==
    /\ [](~mutex.poisoned)
    /\ [](\A thread \in Threads :
             LET layer_count == threads[thread].layer_count
                 in_range == layer_count >= MIN_LAYER_COUNT /\ layer_count <= MAX_LAYER_COUNT
             IN  /\ threads[thread].result = Panicked => ~in_range
                 /\ (~in_range /\ threads[thread].calls > 0) =>
                        /\ threads[thread].pc \in {"idle", "assert"}
                        /\ mutex.holder # Some(thread)
                        /\ threads[thread].pc = "idle" => threads[thread].result = Panicked
                 /\ layer_count \notin DOMAIN mutex.map \/ in_range)
    /\ [][\A thread \in Threads :
             threads'[thread].aborted > threads[thread].aborted =>
                /\ mutex' = mutex
                /\ leaked_boxes' = leaked_boxes
                /\ returned' = returned
                /\ mutex.holder # Some(thread)]_vars

\* a thread whose first call panicked on a layer count out of range has
\* made a second call that returned a reference, which the other thread had
\* inserted, and the other thread has panicked too
C28_Witness ==
    /\ threads[1].aborted = 1
    /\ threads[1].calls = MaxCalls
    /\ threads[1].pc = "idle"
    /\ threads[1].result.kind = "reference"
    /\ <<threads[1].layer_count, threads[1].result.reference>> \in returned
    /\ BuiltFor(threads[1].layer_count) = {threads[1].result.reference}
    /\ threads[2].result = Panicked
    /\ threads[2].layer_count > MAX_LAYER_COUNT
    /\ ~mutex.poisoned

\* the vectors of {-1, 0, 1}^3
SignVectors == {-1, 0, 1} \X {-1, 0, 1} \X {-1, 0, 1}

\* the 180-degree face directions, which no sticker position stands for
HalfTurnFaceDirections ==
    {TwistDirectionEnum.R2, TwistDirectionEnum.L2, TwistDirectionEnum.U2,
     TwistDirectionEnum.D2, TwistDirectionEnum.F2, TwistDirectionEnum.B2}

\* C29: from_signs_within_face is None exactly on the zero vector of
\* {-1, 0, 1}^3; on the 26 other vectors it is injective, gives only
\* 90-degree face, 180-degree edge and 120-degree corner directions, and
\* vector3 of the direction is the vector again. Checked for all 27 vectors
\* on the solved puzzle and for the sign vector of every sticker afterwards
C29_SignsNameDirections ==
    /\ (phase = "idle" /\ scrambles = 0) =>
          \A v \in SignVectors :
             LET found == from_signs_within_face(v)
             IN  /\ found = None <=> v = <<0, 0, 0>>
                 /\ found # None =>
                       /\ found[1] \in 0..(TwistDirectionEnum_COUNT - 1)
                       /\ found[1] \notin HalfTurnFaceDirections
                       /\ period(found[1]) \in {4, 2, 3}
                       /\ vector3(found[1]) = v
                       /\ \A u \in SignVectors :
                             from_signs_within_face(u) = found => u = v
    /\ \A sticker \in Stickers(puzzle) :
          LET v == sticker_signs_within_face(puzzle, sticker)
              checked(found) ==
                  /\ found = None <=> v = <<0, 0, 0>>
                  /\ found # None => vector3(found[1]) = v
          IN  v \in SignVectors /\ checked(from_signs_within_face(v))

\* a click on a corner sticker of a scrambled 3-layer puzzle has made a
\* 120-degree twist, and the puzzle has a sticker with no direction
C29_Witness ==
    /\ phase = "twisted"
    /\ scrambles > 0
    /\ puzzle.layer_count = 3
    /\ period(probe[1].direction) = 3
    /\ probe[1].layers = LayerMask_default
    /\ \E sticker \in Stickers(before) :
          /\ sticker_face(before, sticker) = probe[1].axis
          /\ from_signs_within_face(sticker_signs_within_face(before, sticker)) =
                Some(probe[1].direction)
    /\ \E sticker \in Stickers(puzzle) :
          from_signs_within_face(sticker_signs_within_face(puzzle, sticker)) = None

\* C30: in every reachable state every sticker has both its clockwise and
\* its counterclockwise click twist or neither; when it has them they are
\* on the face the sticker is on now, with the default layer mask, and the
\* counterclockwise one is the reverse of the clockwise one; it has none
\* exactly when its three sign coordinates within the face are all 0; and
\* it has no recentering twist exactly when its face is O or I
C30_ClickTwistsOfStickers ==
    \A sticker \in Stickers(puzzle) :
        LET face == sticker_face(puzzle, sticker)
            checked(clicks) ==
                /\ clicks.twist_cw = None <=> clicks.twist_ccw = None
                /\ clicks.twist_cw # None =>
                      /\ clicks.twist_cw[1].axis = face
                      /\ clicks.twist_ccw[1].axis = face
                      /\ clicks.twist_cw[1].layers = LayerMask_default
                      /\ clicks.twist_ccw[1].layers = LayerMask_default
                      /\ clicks.twist_ccw[1].direction =
                            reverse_twist_direction(clicks.twist_cw[1].direction)
                      /\ clicks.twist_ccw[1].direction # clicks.twist_cw[1].direction
                /\ clicks.twist_cw = None <=>
                      sticker_signs_within_face(puzzle, sticker) = <<0, 0, 0>>
                /\ clicks.twist_recenter = None <=> face \in {FaceEnum.O, FaceEnum.I}
        IN  checked(click_twists(puzzle, sticker))

\* after a click twist on a scrambled 3-layer puzzle, a sticker that has
\* moved to another face has click twists on its new face, a sticker in the
\* middle of a face has none, and a sticker on O has no recentering twist
C30_Witness ==
    /\ phase = "twisted"
    /\ scrambles > 0
    /\ puzzle.layer_count = 3
    /\ \E sticker \in Stickers(puzzle) :
          /\ sticker_face(puzzle, sticker) # sticker_face(before, sticker)
          /\ click_twists(puzzle, sticker).twist_cw # None
          /\ click_twists(puzzle, sticker).twist_recenter # None
    /\ \E sticker \in Stickers(puzzle) : click_twists(puzzle, sticker).twist_cw = None
    /\ \E sticker \in Stickers(puzzle) :
          /\ sticker_face(puzzle, sticker) = FaceEnum.O
          /\ click_twists(puzzle, sticker).twist_recenter = None
          /\ click_twists(puzzle, sticker).twist_cw # None

\* C31: in every reachable controller state current_twist() is None exactly
\* when the queue is empty and otherwise reports the front twist of the
\* queue (with an eased progress in 0..1); whenever the queue is empty,
\* progress is 0, displayed = latest and model_transform_for_piece is the
\* identity for every piece
C31_CurrentTwistIsQueueFront ==
    /\ current_twist(Controller) = None <=> twist_queue = <<>>
    /\ twist_queue # <<>> =>
          /\ current_twist(Controller)[1].twist = Head(twist_queue)
          /\ current_twist(Controller)[1].t \in 0..F32_ONE
    /\ twist_queue = <<>> =>
          /\ progress = 0
          /\ displayed = latest
          /\ \A piece \in DOMAIN displayed.piece_states :
                model_transform_for_piece(Controller, piece) = Matrix4_identity

\* the queue has been emptied by advance after twists were made: the state
\* on display has left the solved state and nothing is animated
C31_Witness ==
    /\ twist_queue = <<>>
    /\ last.op = "advance"
    /\ displayed # Solved
    /\ undo_buffer # <<>>
    /\ current_twist(Controller) = None

\* the six faces that can be recentered
RecenterFaces ==
    {FaceEnum.R, FaceEnum.L, FaceEnum.U, FaceEnum.D, FaceEnum.F, FaceEnum.B}

\* C32: for each face f of R, L, U, D, F, B, the twist of
\* make_recenter_twist(f) applied to a reachable puzzle state affects every
\* piece and moves every sticker that was on face f to the face I
C32_RecenterMovesFaceToI ==
    \A face \in RecenterFaces :
        (/\ phase = "twisted"
         /\ probe[1] = Twist_from_face_recenter(Puzzle_ty(before), face).twist) =>
            /\ pieces_affected_by_twist(before, probe[1]) = DOMAIN before.piece_states
            /\ \A sticker \in Stickers(before) :
                  sticker_face(before, sticker) = face =>
                      sticker_face(puzzle, sticker) = FaceEnum.I

\* the recentering twist of each of the six faces has been applied to a
\* scrambled puzzle on which a sticker of another colour was on the face
C32_Witness ==
    /\ phase = "twisted"
    /\ scrambles > 0
    /\ puzzle.layer_count = 3
    /\ \E face \in RecenterFaces :
          /\ probe[1] = Twist_from_face_recenter(Puzzle_ty(before), face).twist
          /\ \E sticker \in Stickers(before) :
                /\ sticker_face(before, sticker) = face
                /\ puzzle_description(3).stickers[sticker + 1].color # face
                /\ sticker_face(puzzle, sticker) = FaceEnum.I

\* C33: a twist never changes a piece's layer along the twist axis: for
\* every state, twist t and piece, layer_from_twist_axis(t.axis, piece) is
\* the same before and after t, so the pieces t affects are the pieces
\* reverse(t) affects in the resulting state
C33_TwistKeepsLayerAlongAxis ==
    phase = "twisted" =>
        /\ \A piece \in DOMAIN puzzle.piece_states :
              layer_from_twist_axis(puzzle, probe[1].axis, piece)
                  = layer_from_twist_axis(before, probe[1].axis, piece)
        /\ pieces_affected_by_twist(puzzle, Twist_rev(probe[1]))
              = pieces_affected_by_twist(before, probe[1])

\* a twist of some but not all pieces of a scrambled 3-layer puzzle has
\* moved a piece to another location
C33_Witness ==
    /\ phase = "twisted"
    /\ scrambles > 0
    /\ puzzle.layer_count = 3
    /\ pieces_affected_by_twist(before, probe[1])
          \notin {{}, DOMAIN before.piece_states}
    /\ \E piece \in pieces_affected_by_twist(before, probe[1]) :
          /\ piece_location(puzzle, piece) # piece_location(before, piece)
          /\ before.piece_states[piece] # PieceState_default

\* C34: in every puzzle state reachable by twists, piece_location is a
\* bijection from the pieces onto the surface lattice points: no two pieces
\* are at the same location, every surface point holds a piece, and every
\* piece's location has a coordinate equal to 0 or layer_count - 1
C34_LocationsStayABijection ==
    LET locations == [piece \in DOMAIN puzzle.piece_states |->
                          piece_location(puzzle, piece)]
        occupied == {locations[piece] : piece \in DOMAIN locations}
    IN  /\ Cardinality(occupied) = Cardinality(DOMAIN locations)
        /\ occupied = {point \in Lattice(puzzle.layer_count) :
                          OnSurface(point, puzzle.layer_count)}
        /\ \A piece \in DOMAIN locations :
              OnSurface(locations[piece], puzzle.layer_count)

\* a scrambled 3-layer puzzle has been twisted once more, and a piece the
\* last twist moved is away from its initial location
C34_Witness ==
    /\ phase = "twisted"
    /\ scrambles > 0
    /\ puzzle.layer_count = 3
    /\ puzzle # before
    /\ \E piece \in DOMAIN puzzle.piece_states :
          /\ piece_location(puzzle, piece) # piece_location(before, piece)
          /\ piece_location(before, piece)
                # puzzle_description(3).piece_locations[piece + 1]
    /\ \E piece \in DOMAIN puzzle.piece_states :
          piece_location(puzzle, piece)
              # puzzle_description(3).piece_locations[piece + 1]

\* C35: in every reachable puzzle state every sticker lies on the outer
\* layer of the face it shows: layer_from_twist_axis(sticker_face(s), p) = 0
\* for every sticker s of piece p, and two stickers of one piece never show
\* the same face
C35_StickersOnOuterLayer ==
    LET desc == puzzle_description(puzzle.layer_count)
    IN  /\ \A sticker \in Stickers(puzzle) :
              \E k \in DOMAIN desc.pieces[desc.stickers[sticker + 1].piece + 1].stickers :
                  desc.pieces[desc.stickers[sticker + 1].piece + 1].stickers[k] = sticker
        /\ \A piece \in DOMAIN puzzle.piece_states :
            LET listed == desc.pieces[piece + 1].stickers
                faces == [k \in 1..Len(listed) |-> sticker_face(puzzle, listed[k])]
            IN  /\ \A k \in 1..Len(listed) :
                      /\ desc.stickers[listed[k] + 1].piece = piece
                      /\ layer_from_twist_axis(puzzle, faces[k], piece) = 0
                /\ \A j, k \in 1..Len(listed) : j # k => faces[j] # faces[k]

\* a twist of a scrambled 3-layer puzzle has moved a sticker of a piece with
\* several stickers to another face, and a sticker of a negative face to a
\* positive one
C35_Witness ==
    /\ phase = "twisted"
    /\ scrambles > 0
    /\ puzzle.layer_count = 3
    /\ \E sticker \in Stickers(puzzle) :
          /\ sticker_face(puzzle, sticker) # sticker_face(before, sticker)
          /\ sticker_face(before, sticker)
                # puzzle_description(3).stickers[sticker + 1].color
          /\ Len(puzzle_description(3).pieces[
                     puzzle_description(3).stickers[sticker + 1].piece + 1].stickers) > 1
    /\ \E sticker \in Stickers(puzzle) :
          /\ FaceEnum_sign(puzzle_description(3).stickers[sticker + 1].color) = Sign.Neg
          /\ FaceEnum_sign(sticker_face(puzzle, sticker)) = Sign.Pos

\* C36: in every controller state reachable from PuzzleController::new by
\* twist, undo, redo, advance and catch_up, `latest` is the solved initial
\* state with the twists of the undo stack applied from bottom to top
C36_LatestIsUndoStackReplayed ==
    LET replayed == drain(Solved, undo_buffer)
    IN  /\ replayed.ok
        /\ latest = replayed.puzzle

\* a redo has put a second twist back on the undo stack while the first
\* twists are still being animated, and `latest` has left the solved state
C36_Witness ==
    /\ last = [op |-> "redo", ret |-> "Ok"]
    /\ Len(undo_buffer) = 2
    /\ undo_buffer[1] # undo_buffer[2]
    /\ twist_queue # <<>>
    /\ latest # Solved
    /\ latest # displayed

\* no twist of the sequence is immediately followed by its own reverse
NoTwistThenReverse(twists) ==
    \A i \in 1..(Len(twists) - 1) : twists[i + 1] # Twist_rev(twists[i])

\* the undo stack from bottom to top followed by the redo stack from top to
\* bottom
History ==
    undo_buffer \o [i \in 1..Len(redo_buffer) |->
                        redo_buffer[Len(redo_buffer) + 1 - i]]

\* C37: in every reachable controller state the undo stack never holds a
\* twist immediately followed by its own reverse, and neither does the undo
\* stack (bottom to top) followed by the redo stack read top to bottom
C37_NoTwistNextToItsReverse ==
    /\ NoTwistThenReverse(undo_buffer)
    /\ NoTwistThenReverse(History)

\* an undo has moved the second of two different twists to the redo stack:
\* the history runs over both stacks, and a twist would merge with the top
\* of the undo stack
C37_Witness ==
    /\ last = [op |-> "undo", ret |-> "Ok"]
    /\ Len(undo_buffer) = 1
    /\ Len(redo_buffer) = 1
    /\ History = <<undo_buffer[1], redo_buffer[1]>>
    /\ undo_buffer[1] # redo_buffer[1]
    /\ \E t \in MatchingTwists : Merges(t)

\* the fields of the controller that record the twists made
Recorded(self) == <<self.latest, self.undo_buffer, self.redo_buffer, self.is_unsaved>>

\* the fields of the controller that the animation shows
Shown(self) == <<self.displayed, self.progress>>

\* C38: twist, undo and redo, failing or not, never modify `displayed` or
\* progress; advance and catch_up never modify `latest`, the undo stack, the
\* redo stack or is_unsaved; so `displayed` changes only in advance, when it
\* finalizes the front twist of the queue, and in catch_up
C38_CommandsAndAnimationAreSeparate ==
    /\ \A t \in TwistInputs : Shown(twist(Controller, t).self) = Shown(Controller)
    /\ Shown(undo(Controller).self) = Shown(Controller)
    /\ Shown(redo(Controller).self) = Shown(Controller)
    /\ \A frame \in FrameInputs :
          LET advanced == advance(Controller, frame.delta, frame.prefs).self
          IN  /\ Recorded(advanced) = Recorded(Controller)
              /\ advanced.displayed # displayed =>
                    /\ twist_queue # <<>>
                    /\ progress >= F32_ONE
                    /\ advanced.twist_queue = Tail(twist_queue)
                    /\ advanced.displayed
                          = Puzzle_twist(displayed, Head(twist_queue)).puzzle
    /\ Recorded(catch_up(Controller).self) = Recorded(Controller)

\* a controller mid-animation with history on both stacks: a twist, an undo
\* and a redo each move `latest`; at full progress advance moves `displayed`
C38_Witness ==
    /\ undo_buffer # <<>>
    /\ redo_buffer # <<>>
    /\ is_unsaved
    /\ progress >= F32_ONE
    /\ \E t \in TwistInputs : twist(Controller, t).ret = "Err"
    /\ \E t \in TwistInputs : twist(Controller, t).self.latest # latest
    /\ undo(Controller).self.latest # latest
    /\ redo(Controller).self.latest # latest
    /\ \E frame \in FrameInputs :
          advance(Controller, frame.delta, frame.prefs).self.displayed # displayed
    /\ catch_up(Controller).self.displayed # displayed

RECURSIVE advance_each(_, _, _)
\* advance called with each frame of `calls` in turn, from the i-th on
advance_each(self, calls, i) ==
    IF i > Len(calls) THEN self
    ELSE advance_each(advance(self, calls[i].delta, calls[i].prefs).self, calls, i + 1)

\* C39: from progress 0 a queued twist needs at least two calls of advance
\* before it is applied to `displayed`, one that raises progress to 1.0 and
\* a later one that pops it, even when the delta is clamped to finish at
\* once; so a queue of k twists is not drained by fewer than 2k calls of
\* advance, and one call changes `displayed` by at most one twist
C39_TwoAdvancesPerTwist ==
    /\ \A frame \in FrameInputs :
          LET advanced == advance(Controller, frame.delta, frame.prefs).self
          IN  /\ progress < F32_ONE =>
                    /\ advanced.displayed = displayed
                    /\ advanced.twist_queue = twist_queue
              /\ advanced.displayed # displayed =>
                    /\ twist_queue # <<>>
                    /\ advanced.displayed
                          = Puzzle_twist(displayed, Head(twist_queue)).puzzle
                    /\ advanced.twist_queue = Tail(twist_queue)
                    /\ advanced.progress = 0
    /\ (progress = 0 /\ twist_queue # <<>>) =>
          \A calls \in [1..(2 * Len(twist_queue) - 1) -> FrameInputs] :
              advance_each(Controller, calls, 1).twist_queue # <<>>

\* a full queue at progress 0 that calls finishing a twist at once drain
\* in exactly two calls of advance per twist
C39_Witness ==
    /\ progress = 0
    /\ Len(twist_queue) = MaxQueue
    /\ \E frame \in FrameInputs :
          /\ twist_delta(Len(twist_queue), frame.delta, frame.prefs) >= F32_ONE
          /\ advance_each(Controller, [i \in 1..(2 * MaxQueue) |-> frame], 1).twist_queue
                = <<>>
          /\ advance_each(Controller, [i \in 1..(2 * MaxQueue) |-> frame], 1).displayed
                = latest
          /\ advance_each(Controller, [i \in 1..(2 * MaxQueue - 1) |-> frame], 1).twist_queue
                # <<>>
    /\ displayed # latest

\* the four modifier flags of a KeyCombo
ModifierFlags == {"ctrl", "shift", "alt", "logo"}

\* the keys equivalent to the modifier of a flag
ModifierKeys(flag) ==
    CASE flag = "ctrl" -> {Sc("ControlLeft"), Sc("ControlRight"),
                           Vk("LControl"), Vk("RControl")}
      [] flag = "shift" -> {Sc("ShiftLeft"), Sc("ShiftRight"), Vk("LShift"), Vk("RShift")}
      [] flag = "alt" -> {Sc("AltLeft"), Sc("AltRight"), Vk("LAlt"), Vk("RAlt")}
      [] flag = "logo" -> {Sc("MetaLeft"), Sc("MetaRight"), Vk("LWin"), Vk("RWin")}

\* the key list of the combination holds a key of the flag's modifier
HoldsKeyOf(combo, flag) ==
    \E i \in DOMAIN combo.keys : combo.keys[i] \in ModifierKeys(flag)

\* no modifier flag is true while a key of that modifier is in keys
FlagsAndKeysDisjoint(combo) ==
    \A flag \in ModifierFlags : ~(combo[flag] /\ HoldsKeyOf(combo, flag))

\* C40: KeyCombo::validate keeps the key list and clears each of the ctrl,
\* shift, alt and logo flags for which the key list holds a key equivalent
\* to that modifier, leaving the other flags as they were; validate is
\* idempotent; and in every KeyCombo built by KeyCombo::new no modifier flag
\* is true while a key of that modifier is in keys
C40_ValidateClearsPressedModifiers ==
    /\ LET validated == validate(key_combo)
       IN  /\ validated.keys = key_combo.keys
           /\ \A flag \in ModifierFlags :
                 validated[flag] = IF HoldsKeyOf(key_combo, flag)
                                   THEN FALSE
                                   ELSE key_combo[flag]
           /\ validate(validated) = validated
    /\ \A mods \in ModifiersStates :
          /\ KeyCombo_new(key_combo.keys, mods).keys = key_combo.keys
          /\ FlagsAndKeysDisjoint(KeyCombo_new(key_combo.keys, mods))
    /\ key_last \in {"new", "validate"} => FlagsAndKeysDisjoint(key_combo)

\* KeyCombo::new was given a shift key by scan code and a control key by
\* virtual key code with all four modifier bits: the combination keeps both
\* keys and only the alt and logo flags
C40_Witness ==
    /\ key_last = "new"
    /\ key_combo = [keys |-> <<Sc("ShiftLeft"), Vk("RControl")>>,
                    ctrl |-> FALSE, shift |-> FALSE, alt |-> TRUE, logo |-> TRUE]

====
